---------------------------- MODULE Spec2Model ----------------------------
(***************************************************************************)
(* The CricScore rating engine (src/rating_engine): context analysis, the  *)
(* batting, bowling and fielding raters, and the role-weighted merge into  *)
(* one overall rating per player.                                          *)
(*                                                                         *)
(* Arithmetic.  The code computes in binary floating point.  Here every    *)
(* quantity is an exact rational [n |-> numerator, d |-> denominator > 0]  *)
(* in lowest terms, a rating that the code has rounded to one decimal is   *)
(* an integer number of tenths (7.1 is 71), and an overs value o.b is the  *)
(* integer 10*o + b (19.2 is 192).  round(x, 1) is the nearest tenth; when *)
(* the exact value lies half-way between two tenths the floating-point     *)
(* value handed to round() is off the half-way point by a representation   *)
(* error whose sign the exact model does not know, so both neighbouring    *)
(* tenths are possible results (RoundSet) and the action that rounds       *)
(* chooses among them.  The same holds of a comparison x >= t between      *)
(* quotients that binary floating point cannot hold exactly (the strike-   *)
(* rate ratio, the economy difference, the strike rate against the         *)
(* required rate): when x = t exactly, the floating-point x may compare    *)
(* either way (FGe), and the rater's result is a set of possible values.   *)
(* Comparisons whose floating-point operands are exact at the threshold    *)
(* (runs / balls * 100 against 90, 100, 120, 130, 180, the boundary        *)
(* percentage bands, runs per ball, overs bowled, target / 20) are exact.  *)
(* The fielding rater adds point values in an order the events decide, so   *)
(* its sum is computed as the doubles compute it (FAdd), rounding error     *)
(* included, and its result is the one value the code returns.              *)
(***************************************************************************)
EXTENDS Integers, Sequences, FiniteSets, TLC

\* calculate_match_ratings: the match, the step reached, the context and the
\* ratings of each innings and each team.  A function called on its own:
\* call is the function and its arguments, ret is <<>> until the call returns
\* and the one-element tuple of the returned value afterwards.
VARIABLES match, pc, ctx, team1_ratings, team2_ratings, team1_final, team2_final, call, ret

vars == <<match, pc, ctx, team1_ratings, team2_ratings, team1_final, team2_final, call, ret>>

-----------------------------------------------------------------------------
(* Exact rationals *)

Abs(x) == IF x < 0 THEN -x ELSE x

RECURSIVE GCD(_, _)
GCD(a, b) == IF b = 0 THEN a ELSE GCD(b, a % b)

Rat(n, d) ==
    LET g == GCD(Abs(n), Abs(d))
        s == IF d < 0 THEN -1 ELSE 1
    IN  [n |-> s * (n \div g), d |-> s * (d \div g)]

Int2R(k) == [n |-> k, d |-> 1]

RNeg(a) == [n |-> -a.n, d |-> a.d]

RAdd(a, b) ==
    LET g == GCD(a.d, b.d)
    IN  Rat(a.n * (b.d \div g) + b.n * (a.d \div g), (a.d \div g) * b.d)

RSub(a, b) == RAdd(a, RNeg(b))

RMul(a, b) ==
    LET x == Rat(a.n, b.d)
        y == Rat(b.n, a.d)
    IN  [n |-> x.n * y.n, d |-> x.d * y.d]

\* a / b, for b # 0
RDiv(a, b) == RMul(a, Rat(b.d, b.n))

RLt(a, b) == a.n * b.d < b.n * a.d
RLe(a, b) == a.n * b.d <= b.n * a.d
RGe(a, b) == RLe(b, a)
RGt(a, b) == RLt(b, a)

RMin(a, b) == IF RLe(a, b) THEN a ELSE b
RMax(a, b) == IF RLe(a, b) THEN b ELSE a

\* x >= t on floating-point quotients: exact unless x = t, where at_eq decides
FGe(x, t, at_eq) == IF x = t THEN at_eq ELSE RGe(x, t)

\* The decimal literal k/1000
Dec(k) == Rat(k, 1000)

\* A rating held in tenths, as the number it stands for
Tenths(t) == Rat(t, 10)

\* round(x, 1), in tenths: the nearest tenth; both neighbours at an exact tie
RoundSet(x) ==
    LET a  == x.n \div x.d
        r  == x.n % x.d
        t  == (10 * r) \div x.d
        r2 == (10 * r) % x.d
        lo == 10 * a + t
    IN  IF 2 * r2 < x.d THEN {lo}
        ELSE IF 2 * r2 > x.d THEN {lo + 1}
        ELSE {lo, lo + 1}

\* max(0.0, min(10.0, x))
Clamp(x) == RMax(Int2R(0), RMin(Int2R(10), x))

\* max(0.0, min(10.0, t)) on a value already in tenths
ClampTenths(t) == IF t < 0 THEN 0 ELSE IF t > 100 THEN 100 ELSE t


-----------------------------------------------------------------------------
(* models.py: enumerations and derived properties *)

PlayerRole == {"batter", "bowler", "batting_all_rounder", "bowling_all_rounder",
               "wicket_keeper"}

DismissalType == {"not_out", "bowled", "caught", "lbw", "run_out", "stumped",
                  "hit_wicket", "retired_hurt", "did_not_bat"}

FieldingEventType == {"catch", "direct_run_out", "assisted_run_out", "stumping",
                      "dropped_catch", "misfield"}

\* BattingEntry.strike_rate
strike_rate(entry) ==
    IF entry.balls = 0 THEN Int2R(0)
    ELSE RMul(Rat(entry.runs, entry.balls), Int2R(100))

\* BattingEntry.boundary_runs
boundary_runs(entry) == (entry.fours * 4) + (entry.sixes * 6)

\* BattingEntry.boundary_percentage
boundary_percentage(entry) ==
    IF entry.runs = 0 THEN Int2R(0)
    ELSE RMin(RMul(Rat(boundary_runs(entry), entry.runs), Int2R(100)), Int2R(100))

\* A duck whatever the dismissal
is_duck_any_dismissal(entry) == entry.runs = 0

\* BattingEntry.is_duck
is_duck(entry) ==
    entry.runs = 0 /\ entry.dismissal \notin {"not_out", "retired_hurt", "did_not_bat"}

\* A golden duck only when exactly one ball was faced
is_golden_duck_first_ball(entry) == is_duck(entry) /\ entry.balls = 1

\* BattingEntry.is_golden_duck
is_golden_duck(entry) == is_duck(entry) /\ entry.balls <= 1

\* BattingEntry.did_bat
did_bat(entry) == entry.dismissal # "did_not_bat"

\* The overs value read as a decimal number of overs: 6 * overs, in balls
overs_to_balls_decimal(overs) == (overs * 6) \div 10

\* The overs-to-balls conversion of an overs value o.b held as 10*o + b:
\* full = int(overs), partial = round((overs - full) * 10)
overs_to_balls(overs) == (overs \div 10) * 6 + (overs % 10)

\* BowlingEntry.total_balls
total_balls(entry) == overs_to_balls(entry.overs)

\* BowlingEntry.economy_rate
economy_rate(entry) ==
    IF total_balls(entry) = 0 THEN Int2R(0)
    ELSE RDiv(Int2R(entry.runs_conceded), Rat(total_balls(entry), 6))

\* BowlingEntry.did_bowl
did_bowl(entry) == total_balls(entry) > 0

\* Innings.run_rate
run_rate(innings) ==
    LET balls == overs_to_balls(innings.total_overs)
    IN  IF balls = 0 THEN Int2R(0)
        ELSE RMul(Rat(innings.total_runs, balls), Int2R(6))

\* Match.match_economy
match_economy(m) ==
    LET total_runs == m.first_innings.total_runs + m.second_innings.total_runs
        balls == overs_to_balls(m.first_innings.total_overs)
                 + overs_to_balls(m.second_innings.total_overs)
    IN  IF balls = 0 THEN Int2R(0)
        ELSE RDiv(Int2R(total_runs), Rat(balls, 6))

\* Match.match_run_rate
match_run_rate(m) == match_economy(m)

\* Match.required_run_rate: target / 20.0 * 6 / 6.  target / 20.0 is the float
\* nearest the quotient q.  Multiplying by 6 and dividing by 6 is exact when q is
\* a multiple of 1/4; otherwise each step rounds and the result is that float or
\* one of its two neighbours (0.05 becomes 0.05000000000000001).  The floats it
\* can return, as [val |-> q, ulps |-> steps away from the float nearest q]
required_run_rate(m) ==
    LET target == m.first_innings.total_runs + 1
        q == RDiv(RMul(RDiv(Int2R(target), Int2R(20)), Int2R(6)), Int2R(6))
    IN  {[val |-> q, ulps |-> k] : k \in IF target % 5 = 0 THEN {0} ELSE {-1, 0, 1}}

-----------------------------------------------------------------------------
(* context.py *)

\* MatchContext(): the dataclass defaults
MatchContext ==
    [match_economy |-> Int2R(8), match_run_rate |-> Int2R(8),
     first_innings_rr |-> Int2R(8), second_innings_rr |-> Int2R(8),
     target |-> 0, required_run_rate |-> Int2R(8), chase_successful |-> FALSE,
     is_high_scoring |-> FALSE, is_low_scoring |-> FALSE,
     first_batting_team_won |-> FALSE, winner |-> ""]

\* The required run rate without the test of the first-innings total
ctx_required_run_rate_unguarded(fi, target) == RDiv(Int2R(target), Int2R(20))

\* ctx.required_run_rate (lines 56-59)
ctx_required_run_rate(fi, target) ==
    IF fi.total_runs > 0 THEN RDiv(Int2R(target), Int2R(20)) ELSE Int2R(0)

analyze_match_context(m) ==
    LET fi == m.first_innings
        si == m.second_innings
        target == fi.total_runs + 1
        combined == fi.total_runs + si.total_runs
    IN  [match_economy |-> match_economy(m),
         match_run_rate |-> match_run_rate(m),
         first_innings_rr |-> run_rate(fi),
         second_innings_rr |-> run_rate(si),
         target |-> target,
         required_run_rate |-> ctx_required_run_rate(fi, target),
         chase_successful |-> (si.total_runs >= target),
         is_high_scoring |-> (combined >= 350),
         is_low_scoring |-> (combined < 280),
         first_batting_team_won |-> (m.winner = fi.team_name),
         winner |-> m.winner]

get_chase_pressure_factor(required_rr) ==
    IF RLe(required_rr, Int2R(6)) THEN Int2R(0)
    ELSE IF RLe(required_rr, Int2R(8))
        THEN RAdd(Dec(100), RMul(RSub(required_rr, Int2R(6)), Dec(50)))
    ELSE IF RLe(required_rr, Int2R(10))
        THEN RAdd(Dec(200), RMul(RSub(required_rr, Int2R(8)), Dec(150)))
    ELSE IF RLe(required_rr, Int2R(12))
        THEN RAdd(Dec(500), RMul(RSub(required_rr, Int2R(10)), Dec(100)))
    ELSE RMin(Int2R(1), RAdd(Dec(700), RMul(RSub(required_rr, Int2R(12)), Dec(100))))

economy_bands(diff, at_eq) ==
    IF FGe(diff, Int2R(5), at_eq) THEN Dec(2500)
    ELSE IF FGe(diff, Int2R(3), at_eq) THEN Dec(2000)
    ELSE IF FGe(diff, Int2R(2), at_eq) THEN Dec(1500)
    ELSE IF FGe(diff, Int2R(1), at_eq) THEN Dec(1000)
    ELSE IF FGe(diff, Int2R(0), at_eq) THEN RMul(diff, Dec(800))
    ELSE IF FGe(diff, Int2R(-1), at_eq) THEN RMul(diff, Dec(500))
    ELSE IF FGe(diff, Int2R(-2), at_eq)
        THEN RAdd(Dec(-500), RMul(RAdd(diff, Int2R(1)), Dec(500)))
    ELSE IF FGe(diff, Int2R(-4), at_eq)
        THEN RAdd(Dec(-1000), RMul(RAdd(diff, Int2R(2)), Dec(250)))
    ELSE RMax(Dec(-2000), RAdd(Dec(-1500), RMul(RAdd(diff, Int2R(4)), Dec(100))))

\* The adjustment computed from the bands whatever the match economy
get_economy_context_adjustment_unguarded(bowler_economy, match_eco) ==
    {economy_bands(RSub(match_eco, bowler_economy), at_eq) : at_eq \in BOOLEAN}

\* The set of values get_economy_context_adjustment can return
get_economy_context_adjustment(bowler_economy, match_eco) ==
    IF match_eco.n = 0 THEN {Int2R(0)}
    ELSE LET diff == RSub(match_eco, bowler_economy)
         IN  {economy_bands(diff, at_eq) : at_eq \in BOOLEAN}

strike_rate_bands(ratio, at_eq) ==
    IF FGe(ratio, Dec(1600), at_eq) THEN Dec(2000)
    ELSE IF FGe(ratio, Dec(1400), at_eq) THEN Dec(1500)
    ELSE IF FGe(ratio, Dec(1200), at_eq) THEN Dec(1000)
    ELSE IF FGe(ratio, Dec(1000), at_eq) THEN RMul(RSub(ratio, Int2R(1)), Int2R(5))
    ELSE IF FGe(ratio, Dec(800), at_eq) THEN RMul(RSub(ratio, Int2R(1)), Dec(2500))
    ELSE IF FGe(ratio, Dec(600), at_eq)
        THEN RAdd(Dec(-500), RMul(RSub(ratio, Dec(800)), Dec(2500)))
    ELSE RMax(Dec(-1500), RAdd(Dec(-1000), RMul(RSub(ratio, Dec(600)), Dec(2500))))

\* The set of values get_strike_rate_context_adjustment can return
get_strike_rate_context_adjustment(batsman_sr, match_sr) ==
    IF match_sr.n = 0 THEN {Int2R(0)}
    ELSE LET ratio == RDiv(batsman_sr, match_sr)
         IN  {strike_rate_bands(ratio, at_eq) : at_eq \in BOOLEAN}

-----------------------------------------------------------------------------
(* batting.py *)

\* The breakpoints without the point at 75 runs
breakpoints_without_75 ==
    << <<5, Dec(200)>>, <<10, Dec(400)>>, <<15, Dec(700)>>, <<20, Dec(1000)>>,
       <<30, Dec(1500)>>, <<40, Dec(2000)>>, <<50, Dec(2500)>>, <<100, Dec(3000)>> >>

\* _runs_component: piecewise linear interpolation through the breakpoints
breakpoints ==
    << <<5, Dec(200)>>, <<10, Dec(400)>>, <<15, Dec(700)>>, <<20, Dec(1000)>>,
       <<30, Dec(1500)>>, <<40, Dec(2000)>>, <<50, Dec(2500)>>, <<75, Dec(2800)>>,
       <<100, Dec(3000)>> >>

RECURSIVE runs_loop(_, _, _, _)
runs_loop(runs, i, prev_r, prev_s) ==
    IF i > Len(breakpoints) THEN Int2R(3)
    ELSE LET bp_runs == breakpoints[i][1]
             bp_score == breakpoints[i][2]
         IN  IF runs <= bp_runs
             THEN LET frac == Rat(runs - prev_r, bp_runs - prev_r)
                  IN  RAdd(prev_s, RMul(frac, RSub(bp_score, prev_s)))
             ELSE runs_loop(runs, i + 1, bp_runs, bp_score)

_runs_component(runs) ==
    IF runs <= 0 THEN Int2R(0) ELSE runs_loop(runs, 1, 0, Int2R(0))

\* "Bowlers get reduced penalties": entry.role in (BOWLER, BOWLING_ALL_ROUNDER)
is_bowler(entry) == entry.role \in {"bowler", "bowling_all_rounder"}

\* if is_bowler and score < 0: score *= 0.5
bowler_relief(entry, score) ==
    IF is_bowler(entry) /\ score.n < 0 THEN RMul(score, Dec(500)) ELSE score

\* The scaling applied to a negative adjustment as well, whatever the balls
sr_scaled_penalty_kept(entry, adj) ==
    IF entry.balls < 5 THEN RMul(adj, Dec(350))
    ELSE IF entry.balls < 10 THEN RMul(adj, Dec(500))
    ELSE IF entry.balls < 15 THEN RMul(adj, Dec(750))
    ELSE adj

\* Scale down SR impact for shorter innings
sr_scaled(entry, adj) ==
    LET kept == IF entry.balls < 4 /\ adj.n < 0 THEN Int2R(0) ELSE adj
    IN  IF entry.balls < 5 THEN RMul(kept, Dec(350))
        ELSE IF entry.balls < 10 THEN RMul(kept, Dec(500))
        ELSE IF entry.balls < 15 THEN RMul(kept, Dec(750))
        ELSE kept

\* 2. Strike rate component: the set of values it can take
sr_score(entry, c) ==
    IF entry.balls >= 2
    THEN LET match_sr == IF c.match_run_rate.n > 0
                         THEN RDiv(RMul(c.match_run_rate, Int2R(100)), Int2R(6))
                         ELSE Int2R(130)
         IN  {bowler_relief(entry, sr_scaled(entry, adj)) :
                 adj \in get_strike_rate_context_adjustment(strike_rate(entry), match_sr)}
    ELSE {bowler_relief(entry, Int2R(0))}

\* The boundary band discounted in the three steps of the strike-rate score
boundary_scaled_as_strike_rate(entry, band) ==
    LET kept == IF entry.balls < 4 /\ band.n < 0 THEN Int2R(0) ELSE band
    IN  IF entry.balls < 5 THEN RMul(kept, Dec(350))
        ELSE IF entry.balls < 10 THEN RMul(kept, Dec(500))
        ELSE IF entry.balls < 15 THEN RMul(kept, Dec(750))
        ELSE kept

\* Short innings discount of the boundary band
boundary_scaled(entry, band) ==
    LET kept == IF entry.balls < 4 /\ band.n < 0 THEN Int2R(0) ELSE band
    IN  IF entry.balls < 5 THEN RMul(kept, Dec(350))
        ELSE IF entry.balls < 10 THEN RMul(kept, Dec(500))
        ELSE kept

\* 3. Boundary percentage component
boundary_score(entry) ==
    LET raw ==
          IF entry.balls >= 2 /\ entry.runs > 0
          THEN LET bp == boundary_percentage(entry)
                   band == IF RGe(bp, Int2R(70)) THEN Dec(1000)
                           ELSE IF RGe(bp, Int2R(60)) THEN Dec(750)
                           ELSE IF RGe(bp, Int2R(50)) THEN Dec(500)
                           ELSE IF RGe(bp, Int2R(35)) THEN Dec(200)
                           ELSE IF RGe(bp, Int2R(20)) THEN Dec(0)
                           ELSE Dec(-300)
               IN  boundary_scaled(entry, band)
          ELSE Int2R(0)
    IN  bowler_relief(entry, raw)

\* 4. Balls faced / anchoring component
anchor_score(entry) ==
    LET pos == entry.batting_position
        min_balls_anchor == IF pos <= 2 THEN 30 ELSE IF pos <= 4 THEN 25
                            ELSE IF pos <= 6 THEN 20 ELSE 15
        min_balls_partial == IF pos <= 2 THEN 25 ELSE IF pos <= 4 THEN 20
                             ELSE IF pos <= 6 THEN 15 ELSE 12
        sr == strike_rate(entry)
    IN  IF entry.balls >= min_balls_anchor
        THEN IF RGe(sr, Int2R(120)) THEN Dec(500)
             ELSE IF RGe(sr, Int2R(100)) THEN Dec(200)
             ELSE Dec(-300)
        ELSE IF entry.balls >= min_balls_partial
        THEN IF RGe(sr, Int2R(130)) THEN Dec(300)
             ELSE IF RLt(sr, Int2R(90)) THEN Dec(-200)
             ELSE Int2R(0)
        ELSE Int2R(0)

\* 5. Batting position modifier
position_score(entry) ==
    IF entry.batting_position >= 7 /\ entry.runs >= 15
    THEN RMin(Dec(500), RMul(Int2R(entry.runs), Dec(20)))
    ELSE IF entry.batting_position >= 5 /\ entry.runs >= 20
    THEN RMin(Dec(300), RMul(Int2R(entry.runs), Dec(10)))
    ELSE Int2R(0)

\* The bonus given in either innings
notout_score_either_innings(entry, is_winning_team, is_chasing) ==
    IF entry.dismissal = "not_out" /\ entry.runs > 0
    THEN IF is_winning_team THEN Dec(500) ELSE Dec(150)
    ELSE Int2R(0)

\* 6. Not out in chase bonus
notout_score(entry, is_winning_team, is_chasing) ==
    IF is_chasing /\ entry.dismissal = "not_out" /\ entry.runs > 0
    THEN IF is_winning_team THEN Dec(500) ELSE Dec(150)
    ELSE Int2R(0)

\* The chase bands without the halving of very short innings
chase_bands_unscaled(entry, c, at_eq) ==
    LET pressure == get_chase_pressure_factor(c.required_run_rate)
        rrr_as_sr == IF c.required_run_rate.n > 0
                     THEN RDiv(RMul(c.required_run_rate, Int2R(100)), Int2R(6))
                     ELSE Int2R(130)
        sr == strike_rate(entry)
        band == IF FGe(sr, rrr_as_sr, at_eq) THEN RMul(pressure, Int2R(1))
                ELSE IF FGe(sr, RMul(rrr_as_sr, Dec(700)), at_eq)
                    THEN RMul(pressure, Dec(300))
                ELSE RMul(RNeg(pressure), Dec(500))
    IN  IF entry.balls < 4 /\ band.n < 0 THEN Int2R(0) ELSE band

chase_bands(entry, c, at_eq) ==
    LET pressure == get_chase_pressure_factor(c.required_run_rate)
        rrr_as_sr == IF c.required_run_rate.n > 0
                     THEN RDiv(RMul(c.required_run_rate, Int2R(100)), Int2R(6))
                     ELSE Int2R(130)
        sr == strike_rate(entry)
        band == IF FGe(sr, rrr_as_sr, at_eq) THEN RMul(pressure, Int2R(1))
                ELSE IF FGe(sr, RMul(rrr_as_sr, Dec(700)), at_eq)
                    THEN RMul(pressure, Dec(300))
                ELSE RMul(RNeg(pressure), Dec(500))
        kept == IF entry.balls < 4 /\ band.n < 0 THEN Int2R(0) ELSE band
    IN  IF entry.balls < 5 THEN RMul(kept, Dec(500)) ELSE kept

\* 8. Chase pressure bonus: the set of values it can take
chase_score(entry, c, is_chasing) ==
    IF is_chasing /\ entry.balls >= 2
    THEN {bowler_relief(entry, chase_bands(entry, c, at_eq)) : at_eq \in BOOLEAN}
    ELSE {bowler_relief(entry, Int2R(0))}

\* 9. Cameo impact bonus
cameo_score(entry) ==
    IF entry.balls >= 2 /\ entry.balls <= 10 /\ RGe(strike_rate(entry), Int2R(180))
    THEN LET impact == Rat(entry.runs, entry.balls)
             band == IF RGe(impact, Int2R(3)) THEN Dec(800)
                     ELSE IF RGe(impact, Dec(2500)) THEN Dec(600)
                     ELSE IF RGe(impact, Int2R(2)) THEN Dec(400)
                     ELSE IF RGe(impact, Dec(1500)) THEN Dec(200)
                     ELSE Int2R(0)
         IN  IF entry.sixes >= 1 /\ entry.balls <= 5 THEN RAdd(band, Dec(200)) ELSE band
    ELSE Int2R(0)

\* 10. Duck penalty
duck_score(entry) ==
    IF is_golden_duck(entry) THEN Int2R(-2)
    ELSE IF is_duck(entry) THEN Int2R(-1)
    ELSE Int2R(0)

\* The details dict, of which the component scores read below: each has at
\* most two decimals, so that round(score, 2) is the score
batting_details(entry, is_winning_team, is_chasing) ==
    IF ~did_bat(entry) THEN [note |-> "Did not bat"]
    ELSE [not_out_chase |-> notout_score(entry, is_winning_team, is_chasing),
          duck |-> duck_score(entry)]

\* total = base + the nine components, before the clamp, for one value of
\* the strike-rate component and one of the chase-pressure component
batting_sum(entry, is_winning_team, is_chasing, sr, ch) ==
    RAdd(RAdd(RAdd(RAdd(RAdd(RAdd(RAdd(RAdd(RAdd(Int2R(5),
        _runs_component(entry.runs)), sr), boundary_score(entry)),
        anchor_score(entry)), position_score(entry)),
        notout_score(entry, is_winning_team, is_chasing)),
        ch), cameo_score(entry)), duck_score(entry))

\* total = base + the nine components, before the clamp: the set of values
batting_total(entry, c, is_winning_team, is_chasing) ==
    {batting_sum(entry, is_winning_team, is_chasing, sr, ch) :
     sr \in sr_score(entry, c), ch \in chase_score(entry, c, is_chasing)}

\* The clamp of the batting total: max(0.0, min(10.0, total))
batting_clamp(total) == Clamp(total)

\* calculate_batting_rating: the ratings (tenths) round(total, 1) can return
calculate_batting_rating(entry, c, is_winning_team, is_chasing) ==
    IF ~did_bat(entry) THEN {50}
    ELSE UNION {RoundSet(batting_clamp(total)) :
                   total \in batting_total(entry, c, is_winning_team, is_chasing)}

\* The component locals at the return of a call that gave rating, for an
\* entry that batted: the scores as computed, before details rounds them
batting_locals(entry, c, is_winning_team, is_chasing, rating) ==
    {[runs_score |-> _runs_component(entry.runs), sr_score |-> p[1],
      boundary_score |-> boundary_score(entry), anchor_score |-> anchor_score(entry),
      position_score |-> position_score(entry),
      notout_score |-> notout_score(entry, is_winning_team, is_chasing),
      chase_score |-> p[2], cameo_score |-> cameo_score(entry),
      duck_score |-> duck_score(entry)] :
        p \in {q \in sr_score(entry, c) \X chase_score(entry, c, is_chasing) :
                  rating \in RoundSet(batting_clamp(
                      batting_sum(entry, is_winning_team, is_chasing, q[1], q[2])))}}

-----------------------------------------------------------------------------
(* bowling.py *)

\* The wickets score growing by 0.2 a wicket past the fifth
_wickets_component_uncapped(wickets) ==
    IF wickets <= 0 THEN Dec(0)
    ELSE IF wickets <= 5 THEN <<Dec(1000), Dec(1800), Dec(2500), Dec(2800), Dec(3000)>>[wickets]
    ELSE RAdd(Dec(3000), RMul(Int2R(wickets - 5), Dec(200)))

_wickets_component(wickets) ==
    CASE wickets = 0 -> Dec(0)
      [] wickets = 1 -> Dec(1000)
      [] wickets = 2 -> Dec(1800)
      [] wickets = 3 -> Dec(2500)
      [] wickets = 4 -> Dec(2800)
      [] wickets = 5 -> Dec(3000)
      [] OTHER -> Dec(3000)

\* The adjustment taken as it is, whatever the length of the spell
eco_unscaled(entry, adj) == adj

\* Scale down for bowlers who bowled very few balls
eco_scaled(entry, adj) ==
    LET overs_bowled == Rat(total_balls(entry), 6)
    IN  IF RLt(overs_bowled, Int2R(2)) THEN RMul(adj, Dec(500))
        ELSE IF RLt(overs_bowled, Int2R(3)) THEN RMul(adj, Dec(750))
        ELSE adj

\* 2. Economy rate component: the set of values it can take
eco_score(entry, c) ==
    {eco_scaled(entry, adj) :
        adj \in get_economy_context_adjustment(economy_rate(entry), c.match_economy)}

\* 1.5 a maiden without the cap
maiden_score_uncapped(entry) == RMul(Int2R(entry.maidens), Dec(1500))

\* 3. Maidens
maiden_score(entry) == RMin(RMul(Int2R(entry.maidens), Dec(1500)), Int2R(3))

\* 4. Overs bowled modifier
quota_score(entry) ==
    LET overs_bowled == Rat(total_balls(entry), 6)
    IN  IF RGe(overs_bowled, Int2R(4)) THEN Dec(100)
        ELSE IF RGe(overs_bowled, Int2R(3)) THEN Dec(50)
        ELSE Int2R(0)

\* 5. Wicket quality
RECURSIVE wq_sum(_, _)
wq_sum(dismissed, i) ==
    IF i > Len(dismissed) THEN Int2R(0)
    ELSE LET runs == dismissed[i]
             pts == IF runs >= 50 THEN Dec(400)
                    ELSE IF runs >= 30 THEN Dec(300)
                    ELSE IF runs >= 15 THEN Dec(150)
                    ELSE Dec(50)
         IN  RAdd(pts, wq_sum(dismissed, i + 1))

wq_score(entry) ==
    IF Len(entry.dismissed_batsmen_runs) > 0
    THEN RMin(wq_sum(entry.dismissed_batsmen_runs, 1), Int2R(1))
    ELSE Int2R(0)

\* 7. Extras penalty
extras_score(entry) ==
    RNeg(RAdd(RMul(Int2R(entry.wides), Dec(50)), RMul(Int2R(entry.no_balls), Dec(200))))

\* total = base + the six components, before the clamp, for one value of
\* the economy component
bowling_sum(entry, eco) ==
    RAdd(RAdd(RAdd(RAdd(RAdd(RAdd(Int2R(5),
        _wickets_component(entry.wickets)), eco), maiden_score(entry)),
        quota_score(entry)), wq_score(entry)), extras_score(entry))

\* total = base + the six components, before the clamp: the set of values
bowling_total(entry, c) ==
    {bowling_sum(entry, eco) : eco \in eco_score(entry, c)}

\* The bowling total left unclamped
bowling_clamp_missing(total) == total

\* The clamp of the bowling total: max(0.0, min(10.0, total))
bowling_clamp(total) == Clamp(total)

\* The bowling rating with 0.3 added to the total for the winning team
calculate_bowling_rating_win_bonus(entry, c, is_winning_team) ==
    IF ~did_bowl(entry) THEN {50}
    ELSE UNION {RoundSet(bowling_clamp(
                    IF is_winning_team THEN RAdd(total, Dec(300)) ELSE total)) :
                total \in bowling_total(entry, c)}

\* calculate_bowling_rating: the ratings (tenths) round(total, 1) can return
calculate_bowling_rating(entry, c, is_winning_team) ==
    IF ~did_bowl(entry) THEN {50}
    ELSE UNION {RoundSet(bowling_clamp(total)) : total \in bowling_total(entry, c)}

\* The locals wicket_score and eco_score at the return of a call that gave
\* rating: the components as computed, before details rounds them
bowling_locals(entry, c, rating) ==
    IF ~did_bowl(entry) THEN {[note |-> "Did not bowl"]}
    ELSE {[wicket_score |-> _wickets_component(entry.wickets), eco_score |-> eco] :
            eco \in {e \in eco_score(entry, c) :
                        rating \in RoundSet(bowling_clamp(bowling_sum(entry, e)))}}

-----------------------------------------------------------------------------
(* fielding.py *)

EVENT_POINTS(event_type) ==
    CASE event_type = "catch" -> Dec(400)
      [] event_type = "direct_run_out" -> Dec(1500)
      [] event_type = "assisted_run_out" -> Dec(750)
      [] event_type = "stumping" -> Dec(1000)
      [] event_type = "dropped_catch" -> Dec(-1500)
      [] event_type = "misfield" -> Dec(-500)
      [] OTHER -> Int2R(0)

\* The sum of the points in binary floating point.  Every point value is a
\* multiple of 0.05, and a double is held as [k |-> K, e |-> err]: the double
\* whose value is K/20 + err * 2^-54 / 40, with err an integer that is tiny
\* against the value (K/20 is the value the sum has in exact arithmetic, err
\* the rounding error the additions have left).

\* floor(log2(K/20)) for K >= 1
Exponent(K) ==
    IF K >= 2560 THEN 7 ELSE IF K >= 1280 THEN 6 ELSE IF K >= 640 THEN 5
    ELSE IF K >= 320 THEN 4 ELSE IF K >= 160 THEN 3 ELSE IF K >= 80 THEN 2
    ELSE IF K >= 40 THEN 1 ELSE IF K >= 20 THEN 0 ELSE IF K >= 10 THEN -1
    ELSE IF K >= 5 THEN -2 ELSE IF K >= 3 THEN -3 ELSE IF K >= 2 THEN -4 ELSE -5

\* 2^n mod 5
Pow2Mod5(n) == <<1, 2, 4, 3>>[(n % 4) + 1]

\* The double nearest K0/20 + e0 * 2^-54 / 40 (round to nearest, ties to
\* even).  With E the exponent of the value, doubles are 2^(E-52) apart; the
\* value lies r/5 + em / (5 * 2^(E+5)) of that spacing above the double
\* q * 2^(E-52), where q and r are the quotient and remainder of
\* K * 2^(50-E) by 5, and q is odd exactly when r is.
FRound(K0, e0) ==
    IF K0 = 0 THEN [k |-> 0, e |-> e0]
    ELSE LET sgn == IF K0 > 0 THEN 1 ELSE -1
             K == Abs(K0)
             em == sgn * e0
             j == Exponent(K)
             E == IF j >= -2 /\ K = 5 * 2 ^ (j + 2) /\ em < 0 THEN j - 1 ELSE j
             r == ((K % 5) * Pow2Mod5(50 - E)) % 5
             unit == 2 ^ (E + 5)
             num == r * unit + em
             den == 5 * unit
             fl == num \div den
             twice == 2 * (num % den)
             n == IF twice < den THEN fl
                  ELSE IF twice > den THEN fl + 1
                  ELSE IF (r + fl) % 2 = 0 THEN fl ELSE fl + 1
         IN  [k |-> K0, e |-> sgn * (5 * n - r) * unit]

\* The double of a literal with K twentieths, and the sum of two doubles
FLit(K) == FRound(K, 0)
FAdd(a, b) == FRound(a.k + b.k, a.e + b.e)

\* a < b on two doubles
FLess(a, b) == a.k < b.k \/ (a.k = b.k /\ a.e < b.e)

\* round(x, 1) of a double, in tenths: the tenth nearest the double's value,
\* and the even one of the two neighbours when the double is half-way
FRound1(x) ==
    IF x.k % 2 = 0 THEN x.k \div 2
    ELSE LET lo == (x.k - 1) \div 2
         IN  IF x.e > 0 THEN lo + 1
             ELSE IF x.e < 0 THEN lo
             ELSE IF lo % 2 = 0 THEN lo ELSE lo + 1

\* The point values, in twentieths
EVENT_TWENTIETHS(event_type) ==
    LET p == RMul(EVENT_POINTS(event_type), Int2R(20)) IN p.n \div p.d

\* player_events = [e for e in events if e.player_name == player_name]
player_events(player_name, events) ==
    SelectSeq(events, LAMBDA ev : ev.player_name = player_name)

\* total_adjustment after the first i events of the player: 0.0, then
\* total_adjustment += points for each event in turn
RECURSIVE total_adjustment(_, _)
total_adjustment(own_events, i) ==
    IF i = 0 THEN FLit(0)
    ELSE FAdd(total_adjustment(own_events, i - 1),
              FLit(EVENT_TWENTIETHS(own_events[i].event_type)))

\* The clamp of the fielding total: max(0.0, min(10.0, total))
fielding_clamp(total) ==
    LET upper == IF FLess(total, FLit(200)) THEN total ELSE FLit(200)
    IN  IF FLess(FLit(0), upper) THEN upper ELSE FLit(0)

\* calculate_fielding_rating: the rating (tenths) it returns, as a set of one
calculate_fielding_rating(player_name, events) ==
    LET own_events == player_events(player_name, events)
        total == FAdd(FLit(100), total_adjustment(own_events, Len(own_events)))
    IN  {FRound1(fielding_clamp(total))}

-----------------------------------------------------------------------------
(* calculator.py *)

\* The role table with the rows of the two all-rounder roles exchanged
ROLE_WEIGHTS_all_rounders_exchanged(role) ==
    CASE role = "batter" -> <<Dec(800), Dec(50), Dec(150)>>
      [] role = "bowler" -> <<Dec(50), Dec(800), Dec(150)>>
      [] role = "batting_all_rounder" -> <<Dec(300), Dec(550), Dec(150)>>
      [] role = "bowling_all_rounder" -> <<Dec(550), Dec(300), Dec(150)>>
      [] role = "wicket_keeper" -> <<Dec(750), Dec(0), Dec(250)>>
      [] OTHER -> <<Dec(800), Dec(50), Dec(150)>>

\* ROLE_WEIGHTS: (batting_weight, bowling_weight, fielding_weight)
ROLE_WEIGHTS(role) ==
    CASE role = "batter" -> <<Dec(800), Dec(50), Dec(150)>>
      [] role = "bowler" -> <<Dec(50), Dec(800), Dec(150)>>
      [] role = "batting_all_rounder" -> <<Dec(550), Dec(300), Dec(150)>>
      [] role = "bowling_all_rounder" -> <<Dec(300), Dec(550), Dec(150)>>
      [] role = "wicket_keeper" -> <<Dec(750), Dec(0), Dec(250)>>
      [] OTHER -> <<Dec(800), Dec(50), Dec(150)>>

\* All sequences s of length n with s[i] \in Choices[i]
SeqChoices(Choices) ==
    LET n == Len(Choices)
    IN  {s \in [1..n -> UNION {Choices[i] : i \in 1..n}] :
            \A i \in 1..n : s[i] \in Choices[i]}

\* All functions f on DOMAIN Choices with f[x] \in Choices[x]
FunChoices(Choices) ==
    {f \in [DOMAIN Choices -> UNION {Choices[x] : x \in DOMAIN Choices}] :
        \A x \in DOMAIN Choices : f[x] \in Choices[x]}

\* _rate_innings_players: the set of results it can return
_rate_innings_players(batting_innings, bowling_innings, fielding_events, c, is_batting_team_winning, is_bowling_team_winning, is_chasing) ==
    LET bat == batting_innings.batting
        bowl == bowling_innings.bowling
        batter_choices ==
            [i \in 1..Len(bat) |->
                {[name |-> bat[i].name, role |-> bat[i].role, rating |-> r,
                  details |-> batting_details(bat[i], is_batting_team_winning,
                                              is_chasing),
                  did_bat |-> did_bat(bat[i]), balls |-> bat[i].balls] :
                 r \in calculate_batting_rating(bat[i], c, is_batting_team_winning,
                                                is_chasing)}]
        bowler_choices ==
            [i \in 1..Len(bowl) |->
                {[name |-> bowl[i].name, role |-> bowl[i].role, rating |-> r,
                  did_bowl |-> did_bowl(bowl[i]), total_balls |-> total_balls(bowl[i])] :
                 r \in calculate_bowling_rating(bowl[i], c, is_bowling_team_winning)}]
        fielder_names ==
            {fielding_events[i].player_name : i \in 1..Len(fielding_events)}
            \cup {bowl[i].name : i \in 1..Len(bowl)}
            \cup {bowling_innings.batting[i].name : i \in 1..Len(bowling_innings.batting)}
        fielder_choices ==
            [name \in fielder_names |-> calculate_fielding_rating(name, fielding_events)]
    IN  {[batters |-> b, bowlers |-> w, fielders |-> f] :
            b \in SeqChoices(batter_choices), w \in SeqChoices(bowler_choices),
            f \in FunChoices(fielder_choices)}

\* The index of the first entry of name among the first i, 0 if none
first_index(ratings, name, i) ==
    IF \A j \in 1..i : ratings[j].name # name THEN 0
    ELSE CHOOSE j \in 1..i :
             ratings[j].name = name /\ \A k \in 1..(j - 1) : ratings[k].name # name

\* {r["name"]: r for r in ratings}.get(name): the index of the last entry, 0 if none
RECURSIVE last_index(_, _, _)
last_index(ratings, name, i) ==
    IF i = 0 THEN 0
    ELSE IF ratings[i].name = name THEN i
    ELSE last_index(ratings, name, i - 1)

\* all_names: the names of the batting and the bowling ratings
all_names(batting_ratings, bowling_ratings) ==
    {batting_ratings[i].name : i \in 1..Len(batting_ratings)}
    \cup {bowling_ratings[i].name : i \in 1..Len(bowling_ratings)}

is_all_rounder(role) == role \in {"batting_all_rounder", "bowling_all_rounder"}
is_bowler_role(role) == role \in {"bowler", "bowling_all_rounder"}

\* The weights by role without the override for a batter who bowled
dual_skill_weights_batter_unchanged(role, p_did_bat, p_did_bowl, bat_balls, bowl_balls) ==
    IF ~(role \in {"batting_all_rounder", "bowling_all_rounder"})
            /\ p_did_bowl /\ bat_balls >= 6 /\ role \in {"bowler", "bowling_all_rounder"}
    THEN <<Dec(200), Dec(650), Dec(150)>>
    ELSE ROLE_WEIGHTS(role)

\* The weights by role with the bowler's override at 6 balls faced whether or
\* not the player bowled
dual_skill_weights_bowler_any(role, p_did_bat, p_did_bowl, bat_balls, bowl_balls) ==
    IF role \in {"batting_all_rounder", "bowling_all_rounder"} THEN ROLE_WEIGHTS(role)
    ELSE IF p_did_bat /\ bowl_balls >= 6 /\ role \notin {"bowler", "bowling_all_rounder"}
    THEN <<Dec(750), Dec(150), Dec(100)>>
    ELSE IF bat_balls >= 6 /\ role \in {"bowler", "bowling_all_rounder"}
    THEN <<Dec(200), Dec(650), Dec(150)>>
    ELSE ROLE_WEIGHTS(role)

\* The weights chosen by role and the dual-skill override (lines 224-241)
dual_skill_weights(role, p_did_bat, p_did_bowl, bat_balls, bowl_balls) ==
    IF ~is_all_rounder(role)
    THEN IF p_did_bat /\ bowl_balls >= 6 /\ ~is_bowler_role(role)
         THEN <<Dec(750), Dec(150), Dec(100)>>
         ELSE IF p_did_bowl /\ bat_balls >= 6 /\ is_bowler_role(role)
         THEN <<Dec(200), Dec(650), Dec(150)>>
         ELSE ROLE_WEIGHTS(role)
    ELSE ROLE_WEIGHTS(role)

\* The batting weight of a bowler who faced fewer than 6 balls set to 0 and
\* not redistributed
negligible_batting_dropped(w, role, p_did_bat, bat_balls) ==
    IF is_bowler_role(role) /\ p_did_bat /\ bat_balls < 6
    THEN <<Int2R(0), w[2], w[3]>>
    ELSE w

\* "If bowler batted less than 6 balls, set batting weight to 0" (lines 243-252)
negligible_batting(w, role, p_did_bat, bat_balls) ==
    IF is_bowler_role(role) /\ p_did_bat /\ bat_balls < 6
    THEN LET total_w == RAdd(w[2], w[3])
         IN  IF total_w.n > 0
             THEN <<Int2R(0),
                    RAdd(w[2], RDiv(RMul(w[1], w[2]), total_w)),
                    RAdd(w[3], RDiv(RMul(w[1], w[3]), total_w))>>
             ELSE <<Int2R(0), w[2], w[3]>>
    ELSE w

\* The branches of lines 254-275 without the division by the remaining weight
weighted_overall_not_renormalised(w, p_did_bat, p_did_bowl, bat_rating, bowl_rating, field_rating) ==
    IF ~p_did_bat /\ ~p_did_bowl THEN Tenths(field_rating)
    ELSE IF ~p_did_bat
    THEN RAdd(RMul(Tenths(bowl_rating), w[2]), RMul(Tenths(field_rating), w[3]))
    ELSE IF ~p_did_bowl
    THEN RAdd(RMul(Tenths(bat_rating), w[1]), RMul(Tenths(field_rating), w[3]))
    ELSE RAdd(RAdd(RMul(Tenths(bat_rating), w[1]), RMul(Tenths(bowl_rating), w[2])),
              RMul(Tenths(field_rating), w[3]))

\* The branches of lines 254-275 with the batting rating of a player who did
\* not bat kept in the average whenever the player bowled
weighted_overall_counting_batting(w, p_did_bat, p_did_bowl, bat_rating, bowl_rating, field_rating) ==
    IF ~p_did_bat /\ ~p_did_bowl THEN Tenths(field_rating)
    ELSE IF ~p_did_bowl
    THEN RDiv(RAdd(RMul(Tenths(bat_rating), w[1]), RMul(Tenths(field_rating), w[3])),
              RAdd(w[1], w[3]))
    ELSE RAdd(RAdd(RMul(Tenths(bat_rating), w[1]), RMul(Tenths(bowl_rating), w[2])),
              RMul(Tenths(field_rating), w[3]))

\* The weighted average of the components that apply (lines 254-275), as a number
weighted_overall(w, p_did_bat, p_did_bowl, bat_rating, bowl_rating, field_rating) ==
    IF ~p_did_bat /\ ~p_did_bowl THEN Tenths(field_rating)
    ELSE IF ~p_did_bat
    THEN LET total_w == RAdd(w[2], w[3])
         IN  IF total_w.n > 0
             THEN RDiv(RAdd(RMul(Tenths(bowl_rating), w[2]),
                            RMul(Tenths(field_rating), w[3])), total_w)
             ELSE Int2R(5)
    ELSE IF ~p_did_bowl
    THEN LET total_w == RAdd(w[1], w[3])
         IN  IF total_w.n > 0
             THEN RDiv(RAdd(RMul(Tenths(bat_rating), w[1]),
                            RMul(Tenths(field_rating), w[3])), total_w)
             ELSE Int2R(5)
    ELSE RAdd(RAdd(RMul(Tenths(bat_rating), w[1]), RMul(Tenths(bowl_rating), w[2])),
              RMul(Tenths(field_rating), w[3]))

\* overall = max(0.0, min(10.0, round(overall, 1))): the tenths it can be
overall_clamp(t) == ClampTenths(t)

\* One pass of the loop over all_names: the PlayerRating records it can append
player_rating(team_name, name, batting_ratings, bowling_ratings, fielding_ratings) ==
    LET bi == last_index(batting_ratings, name, Len(batting_ratings))
        wi == last_index(bowling_ratings, name, Len(bowling_ratings))
        role == IF bi > 0 THEN batting_ratings[bi].role
                ELSE IF wi > 0 THEN bowling_ratings[wi].role
                ELSE "batter"
        p_did_bat == IF bi > 0 THEN batting_ratings[bi].did_bat ELSE FALSE
        p_did_bowl == IF wi > 0 THEN bowling_ratings[wi].did_bowl ELSE FALSE
        bat_rating == IF bi > 0 THEN batting_ratings[bi].rating ELSE 50
        bowl_rating == IF wi > 0 THEN bowling_ratings[wi].rating ELSE 50
        field_rating == IF name \in DOMAIN fielding_ratings
                        THEN fielding_ratings[name] ELSE 50
        bat_balls == IF bi > 0 THEN batting_ratings[bi].balls ELSE 0
        bowl_balls == IF wi > 0 THEN bowling_ratings[wi].total_balls ELSE 0
        w == negligible_batting(
                 dual_skill_weights(role, p_did_bat, p_did_bowl, bat_balls, bowl_balls),
                 role, p_did_bat, bat_balls)
        overall == weighted_overall(w, p_did_bat, p_did_bowl,
                                    bat_rating, bowl_rating, field_rating)
    IN  {[name |-> name, team |-> team_name, role |-> role,
          overall_rating |-> overall_clamp(t),
          batting_rating |-> bat_rating, bowling_rating |-> bowl_rating,
          fielding_rating |-> field_rating,
          did_bat |-> p_did_bat, did_bowl |-> p_did_bowl] : t \in RoundSet(overall)}

\* The key with its two indices exchanged: (bowl_idx, bat_idx)
sort_key_bowling_first(name, batting_ratings, bowling_ratings) ==
    LET bi == last_index(batting_ratings, name, Len(batting_ratings))
        wi == last_index(bowling_ratings, name, Len(bowling_ratings))
    IN  <<IF wi > 0 THEN wi - 1 ELSE 999, IF bi > 0 THEN bi - 1 ELSE 999>>

\* sort_key: (bat_idx, bowl_idx), 999 for a name that is not in the list
sort_key(name, batting_ratings, bowling_ratings) ==
    LET bi == last_index(batting_ratings, name, Len(batting_ratings))
        wi == last_index(bowling_ratings, name, Len(bowling_ratings))
    IN  <<IF bi > 0 THEN bi - 1 ELSE 999, IF wi > 0 THEN wi - 1 ELSE 999>>

key_less(a, b) == a[1] < b[1] \/ (a[1] = b[1] /\ a[2] < b[2])

\* results.sort(key=sort_key), on the names
RECURSIVE sorted_names(_, _, _)
sorted_names(names, batting_ratings, bowling_ratings) ==
    IF names = {} THEN <<>>
    ELSE LET first == CHOOSE x \in names : \A y \in names \ {x} :
                          key_less(sort_key(x, batting_ratings, bowling_ratings),
                                   sort_key(y, batting_ratings, bowling_ratings))
         IN  <<first>> \o sorted_names(names \ {first}, batting_ratings, bowling_ratings)

\* _merge_team_ratings: the set of lists it can return
_merge_team_ratings(team_name, batting_ratings, bowling_ratings, fielding_ratings) ==
    LET order == sorted_names(all_names(batting_ratings, bowling_ratings),
                              batting_ratings, bowling_ratings)
    IN  SeqChoices([i \in 1..Len(order) |->
            player_rating(team_name, order[i], batting_ratings, bowling_ratings,
                          fielding_ratings)])

-----------------------------------------------------------------------------
(* The matches rated.  One team (the focus team) fields player "p1", whose  *)
(* batting entry, bowling entry and role range over the cases below, with   *)
(* up to MaxFillers team-mates around them and up to MaxEvents fielding     *)
(* events; the other team has a fixed card.                                 *)

MaxFillers == 1
MaxEvents == 1

BE(name, runs, balls, fours, sixes, dismissal, batting_position, role) ==
    [name |-> name, runs |-> runs, balls |-> balls, fours |-> fours, sixes |-> sixes,
     dismissal |-> dismissal, batting_position |-> batting_position, role |-> role]

BW(name, overs, maidens, runs_conceded, wickets, wides, no_balls, role, dismissed) ==
    [name |-> name, overs |-> overs, maidens |-> maidens,
     runs_conceded |-> runs_conceded, wickets |-> wickets, wides |-> wides,
     no_balls |-> no_balls, role |-> role, dismissed_batsmen_runs |-> dismissed]

FE(player_name, event_type) == [player_name |-> player_name, event_type |-> event_type]

\* The focus player's batting entries: did not bat, a 3-ball cameo, a golden
\* duck, a slow 7 off 8, a 62 off 30, and not out without facing a ball
FocusBatting(role) ==
    {BE("p1", 0, 0, 0, 0, "did_not_bat", 8, role),
     BE("p1", 10, 3, 0, 1, "not_out", 8, role),
     BE("p1", 0, 1, 0, 0, "bowled", 8, role),
     BE("p1", 7, 8, 0, 0, "caught", 3, role),
     BE("p1", 62, 30, 6, 4, "not_out", 1, role),
     BE("p1", 0, 0, 0, 0, "not_out", 8, role)}

\* The focus player's bowling entries: no over bowled, three balls with 30
\* no-balls, 4-0-32-1, and 4-2-8-5
FocusBowling(role) ==
    {BW("p1", 0, 0, 0, 0, 0, 0, role, <<>>),
     BW("p1", 3, 0, 12, 0, 2, 30, role, <<>>),
     BW("p1", 40, 0, 32, 1, 0, 0, role, <<>>),
     BW("p1", 40, 2, 8, 5, 0, 0, role, <<55, 30, 4, 20, 61>>)}

FillerNames == <<"p2", "p3", "p4">>

FillerBatting(k) == BE(FillerNames[k], 24 + k, 20, 2, 1, "caught", 4 + k, "batter")
FillerBowling(k) == BW(FillerNames[k], 30 + k, 0, 30, 1, 1, 0, "bowler", <<12>>)

\* k fillers, in roster order
RECURSIVE FillersBat(_)
FillersBat(k) == IF k = 0 THEN <<>> ELSE Append(FillersBat(k - 1), FillerBatting(k))

\* k fillers, in reverse roster order
RECURSIVE FillersBowl(_)
FillersBowl(k) == IF k = 0 THEN <<>> ELSE <<FillerBowling(k)>> \o FillersBowl(k - 1)

\* The roles of the focus player's batting and bowling entries: the same
\* role in both, or a batter listed as a bowler on the bowling card
FocusRoles == {<<role, role>> : role \in PlayerRole} \cup {<<"batter", "bowler">>}

\* The focus team's batting and bowling lists
FocusCards ==
    UNION {{[batting |-> FillersBat(k) \o b, bowling |-> w \o FillersBowl(k)] :
                k \in 0..MaxFillers,
                b \in {<<>>} \cup {<<e>> : e \in FocusBatting(roles[1])},
                w \in {<<>>} \cup {<<e>> : e \in FocusBowling(roles[2])}} :
           roles \in FocusRoles}

\* The events in which the focus team fields: by p1, and by a substitute who
\* neither bats nor bowls
EventPool ==
    {FE("p1", "catch"), FE("p1", "dropped_catch"), FE("sub", "direct_run_out")}

\* Three catches and an assisted run-out by p1
FourEvents ==
    <<FE("p1", "catch"), FE("p1", "catch"), FE("p1", "assisted_run_out"),
      FE("p1", "catch")>>

\* The event lists of a match: up to MaxEvents events and the four events
\* when p1 has no team-mate on the card, at most one event otherwise
EventLists(card) ==
    IF \E i \in 1..Len(card.batting) : card.batting[i].name # "p1"
    THEN UNION {[1..n -> EventPool] : n \in 0..(IF MaxEvents = 0 THEN 0 ELSE 1)}
    ELSE UNION {[1..n -> EventPool] : n \in 0..MaxEvents} \cup {FourEvents}

\* The other team's card
OtherCard ==
    [batting |-> <<BE("q1", 30, 20, 3, 1, "not_out", 1, "batter")>>,
     bowling |-> <<BW("q3", 20, 0, 18, 0, 2, 0, "bowler", <<>>),
                   BW("q2", 40, 0, 30, 1, 0, 0, "bowler", <<30>>)>>]

OtherEvents == <<FE("q2", "catch")>>

\* (first-innings runs, overs, second-innings runs, overs, declared winner): a
\* chase that reaches the target, with either team declared the winner, a
\* match without a ball bowled, declared for team A, and a match without a
\* result, whose second innings has no ball bowled
Totals ==
    {<<180, 200, 181, 192, "A">>, <<180, 200, 181, 192, "B">>,
     <<0, 0, 0, 0, "A">>, <<180, 200, 0, 0, "no_result">>}

Innings(team_name, total_runs, total_overs, card, events, is_chasing) ==
    [team_name |-> team_name, total_runs |-> total_runs, total_wickets |-> 4,
     total_overs |-> total_overs, batting |-> card.batting, bowling |-> card.bowling,
     fielding_events |-> events, is_chasing |-> is_chasing]

\* An Innings holds its own team's batting and bowling lists and the fielding
\* events of the innings in which it batted (by the other team's fielders)
MatchOf(t, focus, card, ev) ==
    [team1_name |-> "A", team2_name |-> "B",
     first_innings |-> Innings("A", t[1], t[2],
                               IF focus = 1 THEN card ELSE OtherCard,
                               IF focus = 1 THEN OtherEvents ELSE ev, FALSE),
     second_innings |-> Innings("B", t[3], t[4],
                                IF focus = 2 THEN card ELSE OtherCard,
                                IF focus = 2 THEN OtherEvents ELSE ev, TRUE),
     winner |-> t[5]]

NoRatings == [batters |-> <<>>, bowlers |-> <<>>, fielders |-> <<>>]

-----------------------------------------------------------------------------
(* calculate_match_ratings, step by step *)

Init ==
    /\ \E card \in FocusCards : \E t \in Totals, focus \in {1, 2}, ev \in EventLists(card) :
          match = MatchOf(t, focus, card, ev)
    /\ pc = "start"
    /\ ctx = MatchContext
    /\ team1_ratings = NoRatings
    /\ team2_ratings = NoRatings
    /\ team1_final = <<>>
    /\ team2_final = <<>>
    /\ call = [fn |-> "calculate_match_ratings"]
    /\ ret = <<>>

\* ctx = analyze_match_context(match)
AnalyzeContext ==
    /\ pc = "start"
    /\ ctx' = analyze_match_context(match)
    /\ pc' = "context"
    /\ UNCHANGED <<match, team1_ratings, team2_ratings, team1_final, team2_final, call, ret>>

\* The two _rate_innings_players calls
RateInnings ==
    /\ pc = "context"
    /\ LET fi == match.first_innings
           si == match.second_innings
           team1_won == match.winner = fi.team_name
           team2_won == match.winner = si.team_name
       IN  /\ team1_ratings' \in _rate_innings_players(fi, si, fi.fielding_events, ctx,
                                                      team1_won, team2_won, FALSE)
           /\ team2_ratings' \in _rate_innings_players(si, fi, si.fielding_events, ctx,
                                                      team2_won, team1_won, TRUE)
    /\ pc' = "rated"
    /\ UNCHANGED <<match, ctx, team1_final, team2_final, call, ret>>

\* The two _merge_team_ratings calls with each team given the bowling and
\* fielding ratings of the innings in which it batted
MergeTeams_same_innings ==
    /\ pc = "rated"
    /\ team1_final' \in _merge_team_ratings(match.first_innings.team_name,
                                            team1_ratings.batters,
                                            team1_ratings.bowlers,
                                            team1_ratings.fielders)
    /\ team2_final' \in _merge_team_ratings(match.second_innings.team_name,
                                            team2_ratings.batters,
                                            team2_ratings.bowlers,
                                            team2_ratings.fielders)
    /\ pc' = "done"
    /\ UNCHANGED <<match, ctx, team1_ratings, team2_ratings, call, ret>>

\* The two _merge_team_ratings calls
MergeTeams ==
    /\ pc = "rated"
    /\ team1_final' \in _merge_team_ratings(match.first_innings.team_name,
                                            team1_ratings.batters,
                                            team2_ratings.bowlers,
                                            team2_ratings.fielders)
    /\ team2_final' \in _merge_team_ratings(match.second_innings.team_name,
                                            team2_ratings.batters,
                                            team1_ratings.bowlers,
                                            team1_ratings.fielders)
    /\ pc' = "done"
    /\ UNCHANGED <<match, ctx, team1_ratings, team2_ratings, call, ret>>

Next == AnalyzeContext \/ RateInnings \/ MergeTeams

\* calculate_match_ratings(m): the pairs of team lists the three steps can
\* return for the match m
calculate_match_ratings(m) ==
    LET c == analyze_match_context(m)
        fi == m.first_innings
        si == m.second_innings
        team1_won == m.winner = fi.team_name
        team2_won == m.winner = si.team_name
    IN  UNION {_merge_team_ratings(fi.team_name, r1.batters, r2.bowlers, r2.fielders)
                  \X _merge_team_ratings(si.team_name, r2.batters, r1.bowlers, r1.fielders) :
               r1 \in _rate_innings_players(fi, si, fi.fielding_events, c,
                                            team1_won, team2_won, FALSE),
               r2 \in _rate_innings_players(si, fi, si.fielding_events, c,
                                            team2_won, team1_won, TRUE)}

Spec == Init /\ [][Next]_vars

-----------------------------------------------------------------------------
(* The raters and the properties of the models, each called on its own with *)
(* arguments drawn from the sets below.                                     *)

\* A match of two innings without cards: (runs, overs, runs, overs, winner)
TotalsMatch(t) ==
    LET none == [batting |-> <<>>, bowling |-> <<>>]
    IN  [team1_name |-> "A", team2_name |-> "B",
         first_innings |-> Innings("A", t[1], t[2], none, <<>>, FALSE),
         second_innings |-> Innings("B", t[3], t[4], none, <<>>, TRUE),
         winner |-> t[5]]

\* The contexts the raters are called in: a match economy of 8.0 with a
\* required rate of 8.05, a chase of 181 in 19.2 overs, no ball bowled, and
\* required rates of 5.05, 11.05, 13.05 and 15.05
CallContexts ==
    {analyze_match_context(TotalsMatch(t)) :
        t \in {<<160, 200, 160, 200, "tie">>, <<180, 200, 181, 192, "B">>,
               <<0, 0, 0, 0, "">>, <<100, 200, 90, 200, "A">>,
               <<220, 200, 221, 195, "B">>, <<260, 200, 200, 200, "A">>,
               <<300, 200, 150, 150, "A">>}}

\* Batting entries: every dismissal, with 0, 1 or 30 runs off 0, 1, 2 or 20
\* balls, for a batter and for a bowler
CallBattingEntries ==
    {BE("p1", runs, balls, 0, 0, dismissal, 4, role) :
        runs \in {0, 1, 30}, balls \in {0, 1, 2, 20}, dismissal \in DismissalType,
        role \in {"batter", "bowler"}}

\* Innings of 2 to 20 balls: runs, fours and sixes with boundary percentages
\* 0, 13.3, 20, 35, 40, 50, 60, 66.7, 70 and 100, out or not out, in three roles
CallScores ==
    {<<0, 0, 0>>, <<1, 0, 0>>, <<4, 1, 0>>, <<6, 0, 1>>, <<10, 1, 0>>, <<10, 0, 1>>,
     <<12, 0, 1>>, <<12, 2, 0>>, <<20, 1, 0>>, <<20, 2, 1>>, <<30, 1, 0>>, <<40, 2, 1>>}

CallInnings ==
    {BE("p1", sc[1], balls, sc[2], sc[3], dismissal, 4, role) :
        sc \in CallScores, balls \in {2, 3, 4, 5, 9, 10, 14, 15, 20},
        dismissal \in {"caught", "not_out"},
        role \in {"batter", "bowler", "bowling_all_rounder"}}

\* Entries of 0 runs off 0 or 1 ball: bowled, run out, not out or retired
\* hurt, in every role, an opener and a number 8, without boundaries or with
\* a four and a six recorded
CallDucks ==
    {BE("p1", 0, balls, b, b, dismissal, batting_position, role) :
        balls \in {0, 1}, b \in {0, 1},
        dismissal \in {"bowled", "run_out", "not_out", "retired_hurt"},
        batting_position \in {1, 8}, role \in PlayerRole}

\* The values of Match.winner: a team name, "tie", "no_result" or empty
Winners == {"A", "B", "tie", "no_result", ""}

\* Matches of a chase of 181 reached in 19.2 overs under every winner: p1, a
\* batter or a bowling all-rounder of either team, with any of the focus
\* batting and bowling entries, and no event or a catch by p1
CallCards ==
    UNION {{[batting |-> b, bowling |-> w] :
                b \in {<<>>} \cup {<<e>> : e \in FocusBatting(role)},
                w \in {<<>>} \cup {<<e>> : e \in FocusBowling(role)}} :
           role \in {"batter", "bowling_all_rounder"}}

CallMatches ==
    {MatchOf(<<180, 200, 181, 192, w>>, focus, card, ev) :
        w \in Winners, focus \in {1, 2}, card \in CallCards,
        ev \in {<<>>, <<FE("p1", "catch")>>}}

\* The dicts _rate_innings_players appends for a batting entry and for a
\* bowling entry
BattingDict(name, role, rating, p_did_bat, balls) ==
    [name |-> name, role |-> role, rating |-> rating,
     details |-> batting_details(BE(name, 0, balls, 0, 0,
                                    IF p_did_bat THEN "not_out" ELSE "did_not_bat",
                                    4, role), FALSE, FALSE),
     did_bat |-> p_did_bat, balls |-> balls]

BowlingDict(name, role, rating, balls) ==
    [name |-> name, role |-> role, rating |-> rating, did_bowl |-> balls > 0,
     total_balls |-> balls]

\* Sub-ratings 0.0, 3.4 and 10.0
CallSubRatings == {0, 34, 100}

\* A player who did not bat (rated 5.0) or who faced 0, 5, 6 or 30 balls
CallBattingDicts(name, role) ==
    {BattingDict(name, role, 50, FALSE, 0)}
    \cup {BattingDict(name, role, r, TRUE, balls) :
             r \in CallSubRatings, balls \in {0, 5, 6, 30}}

\* A player who bowled no ball or who bowled 1, 5, 6 or 24 balls
CallBowlingDicts(name, role) ==
    {BowlingDict(name, role, r, balls) :
        r \in CallSubRatings, balls \in {0, 1, 5, 6, 24}}

MergeCall(batting_ratings, bowling_ratings, fielding_ratings) ==
    [fn |-> "_merge_team_ratings", team_name |-> "A",
     batting_ratings |-> batting_ratings, bowling_ratings |-> bowling_ratings,
     fielding_ratings |-> fielding_ratings]

\* The fielding ratings of a team: none, or 3.4 for p1 and 7.1 for p3
CallFieldingRatings == {<<>>, [name \in {"p1", "p3"} |-> IF name = "p1" THEN 34 ELSE 71]}

\* One player of every role with a batting dict, a bowling dict or both
CallMergesOfOne ==
    UNION {{MergeCall(b, w, f) :
                b \in {<<>>} \cup {<<x>> : x \in CallBattingDicts("p1", role)},
                w \in {<<>>} \cup {<<y>> : y \in CallBowlingDicts("p1", role)},
                f \in CallFieldingRatings} :
           role \in PlayerRole}

\* Batting lists of up to MaxCallList dicts and bowling lists of up to 3 in
\* which a name can occur more than once and a player's batting and bowling
\* dicts can carry different roles
MaxCallList == 3

CallBattingPool ==
    {BattingDict("p1", "batter", 71, TRUE, 30), BattingDict("p1", "bowler", 34, TRUE, 5),
     BattingDict("p2", "bowler", 50, FALSE, 0)}

CallBowlingLists ==
    {<<>>, <<BowlingDict("p2", "batter", 100, 24)>>,
     <<BowlingDict("p2", "batter", 100, 24), BowlingDict("p2", "wicket_keeper", 0, 6)>>,
     <<BowlingDict("p3", "bowler", 50, 0), BowlingDict("p2", "wicket_keeper", 0, 6),
       BowlingDict("p2", "batter", 100, 24)>>,
     <<BowlingDict("p1", "wicket_keeper", 0, 6), BowlingDict("p3", "bowler", 50, 0)>>}

CallMergesOfMany ==
    {MergeCall(b, w, f) :
        b \in UNION {[1..n -> CallBattingPool] : n \in 0..MaxCallList},
        w \in CallBowlingLists, f \in CallFieldingRatings}

\* Fielding events: up to MaxCallEvents events, by p1 or a catch by p2
MaxCallEvents == 4

CallEventPool == {FE("p1", ty) : ty \in FieldingEventType} \cup {FE("p2", "catch")}

CallEventLists == UNION {[1..n -> CallEventPool] : n \in 0..MaxCallEvents}

\* Overs values o.b with o up to MaxCallOvers and b in 0..5
MaxCallOvers == 20

CallOvers == {10 * o + b : o \in 0..MaxCallOvers, b \in 0..5}

\* Runs values from 0 to MaxCallRuns, past the last breakpoint
MaxCallRuns == 120

\* Bowler economies in halves of a run up to MaxCallEconomy, and 17/3; match
\* economies 0.0, 8.0, 8.5 and 32/3
MaxCallEconomy == 20

CallBowlerEconomies == {Rat(k, 2) : k \in 0..(2 * MaxCallEconomy)} \cup {Rat(17, 3)}

CallMatchEconomies == {Int2R(0), Int2R(8), Rat(17, 2), Rat(32, 3)}

\* Required run rates target / 20 up to MaxCallRate runs an over
MaxCallRate == 16

CallRequiredRates == {Rat(target, 20) : target \in 0..(20 * MaxCallRate)}

\* Spells of 0, 5, 11, 12, 17, 18 and 24 balls and of 0.1 overs, for 0, 12,
\* 13 or 40 runs and up to MaxCallWickets wickets
MaxCallWickets == 7

CallBowlingEntries ==
    {BW("p1", overs, 0, runs_conceded, wickets, 0, 0, "bowler", <<>>) :
        overs \in {0, 1, 5, 15, 20, 25, 30, 40}, runs_conceded \in {0, 12, 13, 40},
        wickets \in 0..MaxCallWickets}

\* Spells of 17, 18, 23 and 24 balls with up to 3 maidens, with wides and
\* no-balls, and with dismissed batsmen worth 0.05, 0.45, 0.9 and 1.2
CallSpells ==
    {BW("p1", overs, maidens, runs_conceded, wickets, wides, no_balls, "bowler", dismissed) :
        overs \in {25, 30, 35, 40}, maidens \in 0..3, runs_conceded \in {0, 40},
        wickets \in {0, 5}, wides \in {0, 1, 100}, no_balls \in {0, 1},
        dismissed \in {<<>>, <<10>>, <<15, 30>>, <<50, 30, 15, 14>>, <<50, 50, 50>>}}

\* The contexts the bowling rater is called in: match economies 8.0, 9.18, 0
CallBowlingContexts ==
    {analyze_match_context(TotalsMatch(t)) :
        t \in {<<160, 200, 160, 200, "tie">>, <<180, 200, 181, 192, "B">>,
               <<0, 0, 0, 0, "">>}}

Calls ==
    {[fn |-> "calculate_batting_rating", entry |-> e, ctx |-> c,
      is_winning_team |-> w, is_chasing |-> ch] :
        e \in CallBattingEntries \cup CallInnings \cup CallDucks, c \in CallContexts,
        w \in BOOLEAN, ch \in BOOLEAN}
    \cup {[fn |-> "calculate_fielding_rating", player_name |-> "p1", events |-> ev] :
             ev \in CallEventLists}
    \cup {[fn |-> "total_balls", entry |-> BW("p1", overs, 0, 0, 0, 0, 0, "bowler", <<>>)] :
             overs \in CallOvers}
    \cup {[fn |-> "run_rate",
           innings |-> Innings("A", runs, overs, [batting |-> <<>>, bowling |-> <<>>],
                               <<>>, FALSE)] :
             runs \in {0, 150}, overs \in CallOvers}
    \cup {[fn |-> "match_economy", match |-> TotalsMatch(<<r1, o1, r2, o2, "">>)] :
             r1 \in {0, 180}, r2 \in {0, 181}, o1 \in {0, 34, 200}, o2 \in {0, 192, 200}}
    \cup {[fn |-> "_runs_component", runs |-> runs] : runs \in 0..MaxCallRuns}
    \cup {[fn |-> "calculate_match_ratings", match |-> m] : m \in CallMatches}
    \cup CallMergesOfOne
    \cup CallMergesOfMany
    \cup {[fn |-> "get_chase_pressure_factor", required_rr |-> rr] :
             rr \in CallRequiredRates}
    \cup {[fn |-> "get_economy_context_adjustment", bowler_economy |-> b,
           match_economy |-> m] :
             b \in CallBowlerEconomies, m \in CallMatchEconomies}
    \cup {[fn |-> "calculate_bowling_rating", entry |-> e, ctx |-> c,
           is_winning_team |-> w] :
             e \in CallBowlingEntries \cup CallSpells, c \in CallBowlingContexts,
             w \in BOOLEAN}

CallInit ==
    /\ call \in Calls
    /\ ret = <<>>
    /\ match = TotalsMatch(<<0, 0, 0, 0, "">>)
    /\ pc = "call"
    /\ ctx = MatchContext
    /\ team1_ratings = NoRatings
    /\ team2_ratings = NoRatings
    /\ team1_final = <<>>
    /\ team2_final = <<>>

\* rating, details = calculate_batting_rating(entry, ctx, is_winning_team, is_chasing)
Call_calculate_batting_rating ==
    /\ call.fn = "calculate_batting_rating"
    /\ ret = <<>>
    /\ \E r \in calculate_batting_rating(call.entry, call.ctx, call.is_winning_team, call.is_chasing) :
          LET details == batting_details(call.entry, call.is_winning_team, call.is_chasing)
          IN  IF ~did_bat(call.entry)
              THEN ret' = <<[rating |-> r, details |-> details]>>
              ELSE \E locals \in batting_locals(call.entry, call.ctx, call.is_winning_team,
                                                 call.is_chasing, r) :
                      ret' = <<[rating |-> r, details |-> details, locals |-> locals]>>
    /\ UNCHANGED <<match, pc, ctx, team1_ratings, team2_ratings, team1_final, team2_final, call>>

\* rating, details = calculate_fielding_rating(player_name, events)
Call_calculate_fielding_rating ==
    /\ call.fn = "calculate_fielding_rating"
    /\ ret = <<>>
    /\ \E r \in calculate_fielding_rating(call.player_name, call.events) :
          ret' = <<[rating |-> r]>>
    /\ UNCHANGED <<match, pc, ctx, team1_ratings, team2_ratings, team1_final, team2_final, call>>

\* BowlingEntry.total_balls
Call_total_balls ==
    /\ call.fn = "total_balls"
    /\ ret = <<>>
    /\ ret' = <<total_balls(call.entry)>>
    /\ UNCHANGED <<match, pc, ctx, team1_ratings, team2_ratings, team1_final, team2_final, call>>

\* Innings.run_rate
Call_run_rate ==
    /\ call.fn = "run_rate"
    /\ ret = <<>>
    /\ ret' = <<run_rate(call.innings)>>
    /\ UNCHANGED <<match, pc, ctx, team1_ratings, team2_ratings, team1_final, team2_final, call>>

\* Match.match_economy
Call_match_economy ==
    /\ call.fn = "match_economy"
    /\ ret = <<>>
    /\ ret' = <<match_economy(call.match)>>
    /\ UNCHANGED <<match, pc, ctx, team1_ratings, team2_ratings, team1_final, team2_final, call>>

\* _runs_component(runs)
Call__runs_component ==
    /\ call.fn = "_runs_component"
    /\ ret = <<>>
    /\ ret' = <<_runs_component(call.runs)>>
    /\ UNCHANGED <<match, pc, ctx, team1_ratings, team2_ratings, team1_final, team2_final, call>>

\* A number a double holds exactly: the arithmetic on such arguments is exact
Representable(x) == x.d \in {1, 2, 4, 8}

\* get_economy_context_adjustment(bowler_economy, match_economy): on
\* arguments that doubles hold exactly the subtraction and the comparisons
\* are exact
Call_get_economy_context_adjustment ==
    /\ call.fn = "get_economy_context_adjustment"
    /\ ret = <<>>
    /\ LET exact == Representable(call.bowler_economy) /\ Representable(call.match_economy)
           diff == RSub(call.match_economy, call.bowler_economy)
       IN  \E v \in get_economy_context_adjustment(call.bowler_economy, call.match_economy) :
              /\ (exact /\ call.match_economy.n # 0) => v = economy_bands(diff, TRUE)
              /\ ret' = <<v>>
    /\ UNCHANGED <<match, pc, ctx, team1_ratings, team2_ratings, team1_final, team2_final, call>>

\* rating, details = calculate_bowling_rating(entry, ctx, is_winning_team)
Call_calculate_bowling_rating ==
    /\ call.fn = "calculate_bowling_rating"
    /\ ret = <<>>
    /\ \E r \in calculate_bowling_rating(call.entry, call.ctx, call.is_winning_team) :
          \E locals \in bowling_locals(call.entry, call.ctx, r) :
              ret' = <<[rating |-> r, locals |-> locals]>>
    /\ UNCHANGED <<match, pc, ctx, team1_ratings, team2_ratings, team1_final, team2_final, call>>

\* get_chase_pressure_factor(required_rr)
Call_get_chase_pressure_factor ==
    /\ call.fn = "get_chase_pressure_factor"
    /\ ret = <<>>
    /\ ret' = <<get_chase_pressure_factor(call.required_rr)>>
    /\ UNCHANGED <<match, pc, ctx, team1_ratings, team2_ratings, team1_final, team2_final, call>>

\* calculate_match_ratings(match): the two lists of PlayerRating
Call_calculate_match_ratings ==
    /\ call.fn = "calculate_match_ratings"
    /\ ret = <<>>
    /\ \E result \in calculate_match_ratings(call.match) :
          ret' = <<[team1 |-> result[1], team2 |-> result[2]]>>
    /\ UNCHANGED <<match, pc, ctx, team1_ratings, team2_ratings, team1_final, team2_final, call>>

\* _merge_team_ratings(team_name, batting_ratings, bowling_ratings, fielding_ratings)
Call__merge_team_ratings ==
    /\ call.fn = "_merge_team_ratings"
    /\ ret = <<>>
    /\ \E result \in _merge_team_ratings(call.team_name, call.batting_ratings,
                                         call.bowling_ratings, call.fielding_ratings) :
          ret' = <<result>>
    /\ UNCHANGED <<match, pc, ctx, team1_ratings, team2_ratings, team1_final, team2_final, call>>

CallNext ==
    \/ Call__merge_team_ratings
    \/ Call_calculate_batting_rating
    \/ Call_calculate_fielding_rating
    \/ Call_total_balls
    \/ Call_run_rate
    \/ Call_match_economy
    \/ Call__runs_component
    \/ Call_get_economy_context_adjustment
    \/ Call_get_chase_pressure_factor
    \/ Call_calculate_match_ratings
    \/ Call_calculate_bowling_rating

CallSpec == CallInit /\ [][CallNext]_vars

\* The call of fn has returned
Returned(fn) == call.fn = fn /\ ret # <<>>


-----------------------------------------------------------------------------
(* What the properties below read off a state *)

OwnInnings(t) == IF t = 1 THEN match.first_innings ELSE match.second_innings
InningsRatings(t) == IF t = 1 THEN team1_ratings ELSE team2_ratings
TeamFinal(t) == IF t = 1 THEN team1_final ELSE team2_final
TeamWon(t) == match.winner = OwnInnings(t).team_name

\* The PlayerRating records of team t
Records(t) == {TeamFinal(t)[j] : j \in 1..Len(TeamFinal(t))}

\* The batting and the bowling entries the code reads for a player of team t
BatEntries(t, name) ==
    {OwnInnings(t).batting[i] : i \in {k \in 1..Len(OwnInnings(t).batting) :
                                          OwnInnings(t).batting[k].name = name}}
BowlEntries(t, name) ==
    {OwnInnings(t).bowling[i] : i \in {k \in 1..Len(OwnInnings(t).bowling) :
                                          OwnInnings(t).bowling[k].name = name}}

BallsFaced(t, name) ==
    IF BatEntries(t, name) = {} THEN 0 ELSE (CHOOSE e \in BatEntries(t, name) : TRUE).balls
BallsBowled(t, name) ==
    IF BowlEntries(t, name) = {} THEN 0
    ELSE total_balls(CHOOSE e \in BowlEntries(t, name) : TRUE)

\* The weights (batting, bowling, fielding) = (a, b, c) / 1000
Weights(a, b, c) == <<Dec(a), Dec(b), Dec(c)>>

\* The role table
TableWeights(role) ==
    CASE role = "batter" -> Weights(800, 50, 150)
      [] role = "bowler" -> Weights(50, 800, 150)
      [] role = "batting_all_rounder" -> Weights(550, 300, 150)
      [] role = "bowling_all_rounder" -> Weights(300, 550, 150)
      [] role = "wicket_keeper" -> Weights(750, 0, 250)

\* The average of the sub-ratings of r that apply, under weights w: the three-
\* term sum when r batted and bowled, the average renormalised over the two
\* remaining weights when one discipline is missing, fielding alone when both are
Average(w, r) ==
    LET B == RMul(Tenths(r.batting_rating), w[1])
        O == RMul(Tenths(r.bowling_rating), w[2])
        F == RMul(Tenths(r.fielding_rating), w[3])
    IN  IF ~r.did_bat /\ ~r.did_bowl THEN Tenths(r.fielding_rating)
        ELSE IF ~r.did_bat THEN RDiv(RAdd(O, F), RAdd(w[2], w[3]))
        ELSE IF ~r.did_bowl THEN RDiv(RAdd(B, F), RAdd(w[1], w[3]))
        ELSE RAdd(RAdd(B, O), F)

\* The overall ratings (tenths) that are Average(w, r) to one decimal in [0, 10]
Rounded(x) == {ClampTenths(t) : t \in RoundSet(x)}

-----------------------------------------------------------------------------
\* C1: every batting, bowling and fielding sub-rating the raters return and
\* every overall_rating of calculate_match_ratings is a number of tenths in
\* the closed range [0, 10].
C1_RatingsInRange ==
    /\ \A t \in 1..2 :
        LET tr == InningsRatings(t)
        IN  /\ \A i \in 1..Len(tr.batters) : tr.batters[i].rating \in 0..100
            /\ \A i \in 1..Len(tr.bowlers) : tr.bowlers[i].rating \in 0..100
            /\ \A n \in DOMAIN tr.fielders : tr.fielders[n] \in 0..100
    /\ \A t \in 1..2 : \A r \in Records(t) :
        /\ r.overall_rating \in 0..100
        /\ r.batting_rating \in 0..100
        /\ r.bowling_rating \in 0..100
        /\ r.fielding_rating \in 0..100

\* A bowler whose total before the clamp is above 10 has been rated 10.0
C1_Witness ==
    /\ pc = "done"
    /\ \E t \in 1..2 : \E r \in Records(t) : \E e \in BowlEntries(t, r.name) :
        /\ \A total \in bowling_total(e, ctx) : RGt(total, Int2R(10))
        /\ r.bowling_rating = 100
        /\ r.overall_rating \in 0..100

\* C2: a batting entry whose dismissal is did_not_bat is rated exactly 5.0 and
\* has zero weight in the player's overall rating: the overall is the average
\* of bowling and fielding, renormalised over the role's bowling and fielding
\* weights, if the player bowled, and the fielding rating otherwise.
C2_DidNotBatZeroWeight ==
    \A t \in 1..2 : \A i \in 1..Len(OwnInnings(t).batting) :
        LET e == OwnInnings(t).batting[i]
        IN  e.dismissal = "did_not_bat" =>
              /\ calculate_batting_rating(e, ctx, TeamWon(t), t = 2) = {50}
              /\ pc \in {"rated", "done"} => InningsRatings(t).batters[i].rating = 50
              /\ \A r \in Records(t) : r.name = e.name =>
                    /\ r.batting_rating = 50
                    /\ ~r.did_bat
                    /\ LET w == TableWeights(r.role)
                       IN  IF r.did_bowl
                           THEN r.overall_rating \in
                                  Rounded(RDiv(RAdd(RMul(Tenths(r.bowling_rating), w[2]),
                                                    RMul(Tenths(r.fielding_rating), w[3])),
                                               RAdd(w[2], w[3])))
                           ELSE r.overall_rating = r.fielding_rating

\* A batter who did not bat and bowled has an overall rating between a bowling
\* and a fielding rating that differ from each other and from 5.0
C2_Witness ==
    /\ pc = "done"
    /\ \E t \in 1..2 : \E r \in Records(t) : \E e \in BatEntries(t, r.name) :
        /\ e.dismissal = "did_not_bat"
        /\ r.role = "batter"
        /\ r.did_bowl
        /\ r.bowling_rating # r.fielding_rating
        /\ r.bowling_rating # 50
        /\ r.fielding_rating # 50

\* The ratings calculate_match_ratings hands to _merge_team_ratings for team t
BattersOf(t) == InningsRatings(t).batters
BowlersOf(t) == InningsRatings(3 - t).bowlers
FieldersOf(t) == InningsRatings(3 - t).fielders

\* A list of ratings without the entries of name
Without(ratings, name) == SelectSeq(ratings, LAMBDA x : x.name # name)

\* The weights the code has in force for record r of team t when it reaches the
\* missing-discipline branches
InForce(t, r) ==
    negligible_batting(
        dual_skill_weights(r.role, r.did_bat, r.did_bowl,
                           BallsFaced(t, r.name), BallsBowled(t, r.name)),
        r.role, r.did_bat, BallsFaced(t, r.name))

\* The overall ratings the merge can give r's player from the same bowling and
\* fielding ratings once the player's batting rating is removed
OverallWithoutBatting(t, r) ==
    {x.overall_rating :
        x \in player_rating(r.team, r.name, Without(BattersOf(t), r.name),
                            BowlersOf(t), FieldersOf(t))}

\* C3: for a player of role bowler or bowling_all_rounder with a bowling entry
\* and a batting entry of fewer than 6 balls (the same role in both), the
\* overall rating is identical to the one the same match gives with that
\* batting entry removed.  An entry that did not bat leaves the computation as
\* it is without the entry, so the overall rating is one that computation
\* gives; an entry that batted is merged by another computation (the three-term
\* sum under the redistributed weights), and the two are identical when the
\* computation without the entry can give that overall rating and no other.
C3_CameoRemovalIdentical ==
    pc = "done" =>
        \A t \in 1..2 : \A r \in Records(t) :
            \A b \in BatEntries(t, r.name) : \A o \in BowlEntries(t, r.name) :
                (is_bowler_role(b.role) /\ o.role = b.role /\ b.balls < 6) =>
                    IF did_bat(b)
                    THEN OverallWithoutBatting(t, r) = {r.overall_rating}
                    ELSE r.overall_rating \in OverallWithoutBatting(t, r)

\* The dual-skill override applies to a non-all-rounder: a batter or wicket-
\* keeper who batted and bowled 6 or more legal balls, a bowler who bowled and
\* faced 6 or more balls
DualSkillApplies(t, r) ==
    \/ r.role \in {"batter", "wicket_keeper"} /\ r.did_bat /\ BallsBowled(t, r.name) >= 6
    \/ r.role = "bowler" /\ r.did_bowl /\ BallsFaced(t, r.name) >= 6

\* The negligible-batting override applies to a bowler or bowling all-rounder
\* who batted and faced fewer than 6 balls
NegligibleBattingApplies(t, r) ==
    r.role \in {"bowler", "bowling_all_rounder"} /\ r.did_bat /\ BallsFaced(t, r.name) < 6

C5_BatterWhoBowled_AsStated ==
    \A t \in 1..2 : \A r \in Records(t) :
        (r.role = "batter" /\ BallsBowled(t, r.name) >= 6) =>
            /\ InForce(t, r) = Weights(750, 150, 100)
            /\ r.overall_rating \in Rounded(Average(Weights(750, 150, 100), r))

\* C5, amended: every player of role batter who batted and bowled at least 6
\* legal balls has the weights (0.75, 0.15, 0.10) in force, and an overall
\* rating computed from them; a batter who did not bat keeps the row of the
\* role table, (0.80, 0.05, 0.15), however many balls the player bowled.
C5_BatterWhoBattedAndBowled ==
    \A t \in 1..2 : \A r \in Records(t) :
        (r.role = "batter" /\ BallsBowled(t, r.name) >= 6) =>
            LET w == IF r.did_bat THEN Weights(750, 150, 100) ELSE TableWeights("batter")
            IN  /\ InForce(t, r) = w
                /\ r.overall_rating \in Rounded(Average(w, r))

\* A batter who batted and bowled four overs, with three different sub-ratings
C5_Witness ==
    /\ pc = "done"
    /\ \E t \in 1..2 : \E r \in Records(t) :
        /\ r.role = "batter" /\ r.did_bat /\ BallsBowled(t, r.name) >= 6
        /\ r.batting_rating # r.bowling_rating
        /\ r.bowling_rating # r.fielding_rating
        /\ r.batting_rating # r.fielding_rating

C7_MissingDiscipline ==
    \A t \in 1..2 : \A r \in Records(t) :
        LET w == InForce(t, r)
            B == RMul(Tenths(r.batting_rating), w[1])
            O == RMul(Tenths(r.bowling_rating), w[2])
            F == RMul(Tenths(r.fielding_rating), w[3])
        IN  /\ (~r.did_bat /\ ~r.did_bowl) => r.overall_rating = r.fielding_rating
            /\ (~r.did_bat /\ r.did_bowl) =>
                    r.overall_rating \in Rounded(RDiv(RAdd(O, F), RAdd(w[2], w[3])))
            /\ (r.did_bat /\ ~r.did_bowl) =>
                    r.overall_rating \in Rounded(RDiv(RAdd(B, F), RAdd(w[1], w[3])))
            /\ (r.did_bat /\ r.did_bowl) =>
                    r.overall_rating \in Rounded(RAdd(RAdd(B, O), F))

\* One match in which all four cases occur, with sub-ratings that differ
C7_Witness ==
    /\ pc = "done"
    /\ \E t \in 1..2 : \E r \in Records(t) :
        ~r.did_bat /\ ~r.did_bowl /\ r.fielding_rating # 50
    /\ \E t \in 1..2 : \E r \in Records(t) :
        ~r.did_bat /\ r.did_bowl /\ r.bowling_rating # r.fielding_rating
    /\ \E t \in 1..2 : \E r \in Records(t) :
        r.did_bat /\ ~r.did_bowl /\ r.batting_rating # r.fielding_rating
    /\ \E t \in 1..2 : \E r \in Records(t) :
        r.did_bat /\ r.did_bowl /\ r.batting_rating # r.bowling_rating

\* The names of a list of entries, and of the records of team t
Names(entries) == {entries[i].name : i \in 1..Len(entries)}
RecordNames(t) == {r.name : r \in Records(t)}

\* C8 as stated: every bowling entry of an innings' bowling list is reported, as
\* a PlayerRating, in the list of the team that did not bat in that innings
\* (first_innings.bowling under the second-innings team and the reverse).
C8_BowlingUnderOpposingTeam_AsStated ==
    pc = "done" =>
        \A t \in 1..2 : \A e \in {OwnInnings(t).bowling[i] : i \in 1..Len(OwnInnings(t).bowling)} :
            \E r \in Records(3 - t) :
                r.name = e.name /\ r.team = OwnInnings(3 - t).team_name

\* C8, amended: every bowling entry of an innings' bowling list belongs to the
\* team of that innings (which bowled it in the other innings): it is reported,
\* as a PlayerRating, in the list and under the name of the team that batted in
\* that innings, rated as that team's bowling, and not in the other team's
\* list (the names of the two teams being different).
C8_BowlingUnderOwnTeam ==
    pc = "done" =>
        \A t \in 1..2 : \A e \in {OwnInnings(t).bowling[i] : i \in 1..Len(OwnInnings(t).bowling)} :
            /\ \E r \in Records(t) :
                /\ r.name = e.name
                /\ r.team = OwnInnings(t).team_name
                /\ r.did_bowl = did_bowl(e)
                /\ r.bowling_rating \in calculate_bowling_rating(e, ctx, TeamWon(t))
            /\ e.name \notin RecordNames(3 - t)

\* The first innings' bowling list holds a bowler who bowled, the second
\* innings' list another, and both have been rated with ratings that differ
C8_Witness ==
    /\ pc = "done"
    /\ \E r1 \in Records(1) : \E r2 \in Records(2) :
        /\ r1.name \in Names(match.first_innings.bowling)
        /\ r2.name \in Names(match.second_innings.bowling)
        /\ r1.did_bowl /\ r2.did_bowl
        /\ r1.bowling_rating # r2.bowling_rating

\* C9: a player who is the subject of a fielding event of an innings and has no
\* batting entry and no bowling entry in the fielding team receives a
\* PlayerRating in the fielding team's list whose overall rating is the
\* player's fielding rating.
C9_FieldingOnlyParticipantRated ==
    pc = "done" =>
        \A t \in 1..2 :
            LET events == OwnInnings(t).fielding_events
                fielding_team == 3 - t
            IN  \A k \in 1..Len(events) :
                    LET name == events[k].player_name
                    IN  (BatEntries(fielding_team, name) = {}
                            /\ BowlEntries(fielding_team, name) = {}) =>
                            \E r \in Records(fielding_team) :
                                /\ r.name = name
                                /\ r.fielding_rating \in calculate_fielding_rating(name, events)
                                /\ r.overall_rating = r.fielding_rating

-----------------------------------------------------------------------------
\* The names of a list of entries or of records, in the order of the list
NameSeq(entries) == [i \in 1..Len(entries) |-> entries[i].name]

\* The names of team t's batting entries, in the order of the entries
BattingOrder(t) == NameSeq(OwnInnings(t).batting)

\* The names of team t's bowling entries that have no batting entry, in the
\* order of the bowling entries
BowlingOnlyOrder(t) ==
    SelectSeq(NameSeq(OwnInnings(t).bowling),
              LAMBDA n : n \notin Names(OwnInnings(t).batting))

\* C11: each team's list of PlayerRating records holds first the players that
\* have a batting entry, in the order of the batting entries, and after them
\* the players that have only a bowling entry, in the order of the bowling
\* entries.
C11_OutputOrder ==
    pc = "done" =>
        \A t \in 1..2 : NameSeq(TeamFinal(t)) = BattingOrder(t) \o BowlingOnlyOrder(t)

\* One team has a batter and two players who only bowl, and in the other a
\* player who only bowls stands, in the bowling list, before one who also bats
C11_Witness ==
    /\ pc = "done"
    /\ \E t \in 1..2 :
        /\ Len(BattingOrder(t)) >= 1
        /\ Len(BowlingOnlyOrder(t)) >= 2
        /\ Len(TeamFinal(t)) = 3
    /\ \E t \in 1..2 :
        LET bowl == NameSeq(OwnInnings(t).bowling)
        IN  \E i, j \in 1..Len(bowl) :
                /\ i < j
                /\ bowl[i] \notin Names(OwnInnings(t).batting)
                /\ bowl[j] \in Names(OwnInnings(t).batting)
                /\ TeamFinal(t)[1].name = bowl[j]

-----------------------------------------------------------------------------
\* The declared winner is the other team
TeamLost(t) == match.winner = OwnInnings(3 - t).team_name

\* The batting entries of team t that batted, with the not-out-in-chase bonus
\* their rating was given: <<entry, bonus>>
NotOutBonuses(t) ==
    {<<OwnInnings(t).batting[i], InningsRatings(t).batters[i].details.not_out_chase>> :
        i \in {k \in 1..Len(OwnInnings(t).batting) : did_bat(OwnInnings(t).batting[k])}}

\* Not out with runs on the board in the chase (the second innings)
NotOutInChase(t, e) == t = 2 /\ e.dismissal = "not_out" /\ e.runs > 0

\* When the second-innings team reaches the target and is the declared winner,
\* chase_successful is true and each of its not-out batters with runs has +0.5
ChaseWon ==
    (/\ match.second_innings.total_runs >= match.first_innings.total_runs + 1
     /\ TeamWon(2))
    => /\ ctx.chase_successful
       /\ \A p \in NotOutBonuses(2) : NotOutInChase(2, p[1]) => p[2] = Dec(500)

C12_NoResultWitness ==
    /\ pc = "done"
    /\ match.winner = "no_result"
    /\ \E p \in NotOutBonuses(2) : NotOutInChase(2, p[1]) /\ p[2] = Dec(150)

-----------------------------------------------------------------------------
\* The batter was dismissed
Dismissed(e) == e.dismissal \notin {"not_out", "retired_hurt", "did_not_bat"}

\* C13: the duck penalty is exactly -2.0 for a batter dismissed for 0 runs
\* having faced at most 1 ball, exactly -1.0 for a batter dismissed for 0 runs
\* having faced 2 or more balls, and 0 for every other batting entry (an entry
\* that did not bat is rated 5.0, without any component).
C13_DuckPenalty ==
    Returned("calculate_batting_rating") =>
        LET e == call.entry
        IN  IF ~did_bat(e)
            THEN ret[1] = [rating |-> 50, details |-> [note |-> "Did not bat"]]
            ELSE ret[1].details.duck =
                    IF Dismissed(e) /\ e.runs = 0 /\ e.balls <= 1 THEN Int2R(-2)
                    ELSE IF Dismissed(e) /\ e.runs = 0 /\ e.balls >= 2 THEN Int2R(-1)
                    ELSE Int2R(0)

\* A batter bowled first ball for 0 has been given -2.0
C13_Witness ==
    /\ Returned("calculate_batting_rating")
    /\ call.entry.dismissal = "bowled" /\ call.entry.runs = 0 /\ call.entry.balls = 1
    /\ ret[1].details.duck = Int2R(-2)

-----------------------------------------------------------------------------
\* The fixed deltas, in twentieths of a point
Delta(event_type) ==
    CASE event_type = "catch" -> 8
      [] event_type = "direct_run_out" -> 30
      [] event_type = "assisted_run_out" -> 15
      [] event_type = "stumping" -> 20
      [] event_type = "dropped_catch" -> -30
      [] event_type = "misfield" -> -10

\* How many of the events are the event x
Count(events, x) == Cardinality({i \in 1..Len(events) : events[i] = x})

\* The sum of the deltas of the events of name, in twentieths
RECURSIVE DeltaSum(_, _, _)
DeltaSum(name, events, types) ==
    IF types = {} THEN 0
    ELSE LET ty == CHOOSE x \in types : TRUE
         IN  Delta(ty) * Count(events, FE(name, ty)) + DeltaSum(name, events, types \ {ty})

\* The clamp to [0, 10] of 5.0 plus the sum of the deltas, to one decimal
StatedFielding(name, events) ==
    RoundSet(Clamp(Rat(100 + DeltaSum(name, events, FieldingEventType), 20)))

\* The same events in another order
Reordered(events, other) ==
    /\ Len(other) = Len(events)
    /\ \A x \in CallEventPool : Count(other, x) = Count(events, x)

\* The part of C14 that holds: the rating is the clamp of 5.0 plus the sum of
\* the player's deltas, to one decimal; events of other players do not change
\* it; a player without events has 5.0, and so has a player with one direct
\* run-out and one dropped catch.
C14_FieldingValue ==
    Returned("calculate_fielding_rating") =>
        LET name == call.player_name
            own == player_events(name, call.events)
            r == ret[1].rating
        IN  /\ r \in StatedFielding(name, call.events)
            /\ calculate_fielding_rating(name, own) = {r}
            /\ own = <<>> => r = 50
            /\ Reordered(own, <<FE(name, "direct_run_out"), FE(name, "dropped_catch")>>)
                  => r = 50

\* C14: calculate_fielding_rating(name, events) is the clamp to [0, 10] of 5.0
\* plus the sum of the fixed deltas of the events of name; the result does
\* not depend on the order of the events or on the events of other players,
\* and is 5.0 for a player without events and for one direct run-out plus one
\* dropped catch.
C14_FieldingOrderFree ==
    Returned("calculate_fielding_rating") =>
        /\ C14_FieldingValue
        /\ \A other \in CallEventLists :
              Reordered(call.events, other)
                  => calculate_fielding_rating(call.player_name, other) = {ret[1].rating}

-----------------------------------------------------------------------------
\* The balls of an overs value o.b: 6 * o + b
Balls(overs) == 6 * (overs \div 10) + (overs % 10)

\* C15: for overs o.b with b in 0..5, BowlingEntry.total_balls is 6 * o + b
\* (3.4 gives 22 and 19.2 gives 116); Innings.run_rate and Match.match_economy
\* use the same conversion, so that match_economy is 6 * (runs1 + runs2) /
\* (balls1 + balls2), 0.0 when no ball was bowled, and not the runs divided by
\* the decimal overs value.
C15_OversToBalls ==
    /\ Returned("total_balls") =>
          /\ ret[1] = Balls(call.entry.overs)
          /\ call.entry.overs = 34 => ret[1] = 22
          /\ call.entry.overs = 192 => ret[1] = 116
    /\ Returned("run_rate") =>
          LET balls == Balls(call.innings.total_overs)
          IN  ret[1] = IF balls = 0 THEN Int2R(0)
                       ELSE Rat(6 * call.innings.total_runs, balls)
    /\ Returned("match_economy") =>
          LET fi == call.match.first_innings
              si == call.match.second_innings
              runs == fi.total_runs + si.total_runs
              balls == Balls(fi.total_overs) + Balls(si.total_overs)
              overs == fi.total_overs + si.total_overs
          IN  /\ ret[1] = IF balls = 0 THEN Int2R(0) ELSE Rat(6 * runs, balls)
              /\ (runs > 0 /\ overs % 10 # 0) => ret[1] # Rat(10 * runs, overs)

\* A match of 180 in 20.0 overs and 181 in 19.2 overs, 236 balls in all, has
\* the economy 6 * 361 / 236
C15_Witness ==
    /\ Returned("match_economy")
    /\ call.match.first_innings.total_overs = 200
    /\ call.match.second_innings.total_overs = 192
    /\ total_balls([overs |-> 192]) = 116
    /\ ret[1] = Rat(6 * 361, 236)

-----------------------------------------------------------------------------
\* The orders of a list
Orders(s) == {[i \in 1..Len(s) |-> s[p[i]]] : p \in Permutations(1..Len(s))}

\* The matches that differ from m in the order of the batting entries, of the
\* bowling entries or of the fielding events of one innings
Permuted(m) ==
    {[m EXCEPT !.first_innings.batting = o] : o \in Orders(m.first_innings.batting)}
    \cup {[m EXCEPT !.first_innings.bowling = o] : o \in Orders(m.first_innings.bowling)}
    \cup {[m EXCEPT !.first_innings.fielding_events = o] :
             o \in Orders(m.first_innings.fielding_events)}
    \cup {[m EXCEPT !.second_innings.batting = o] : o \in Orders(m.second_innings.batting)}
    \cup {[m EXCEPT !.second_innings.bowling = o] : o \in Orders(m.second_innings.bowling)}
    \cup {[m EXCEPT !.second_innings.fielding_events = o] :
             o \in Orders(m.second_innings.fielding_events)}

\* The matches that differ from m in the order of the batting or of the
\* bowling entries of one innings
CardsPermuted(m) ==
    {[m EXCEPT !.first_innings.batting = o] : o \in Orders(m.first_innings.batting)}
    \cup {[m EXCEPT !.first_innings.bowling = o] : o \in Orders(m.first_innings.bowling)}
    \cup {[m EXCEPT !.second_innings.batting = o] : o \in Orders(m.second_innings.batting)}
    \cup {[m EXCEPT !.second_innings.bowling = o] : o \in Orders(m.second_innings.bowling)}

\* The PlayerRating records of a list, without their order
RecordSet(final) == {final[i] : i \in 1..Len(final)}

\* C16: with unique names in each list, a match that differs only in the
\* order of the batting entries, the bowling entries or the fielding events
\* of an innings gives every player the batting, bowling, fielding and
\* overall rating this match gives them: only the order of the lists differs.
C16_OrderOfEntries ==
    pc = "done" =>
        \A m \in Permuted(match) \ {match} :
            \E out \in calculate_match_ratings(m) :
                /\ RecordSet(out[1]) = RecordSet(team1_final)
                /\ RecordSet(out[2]) = RecordSet(team2_final)

\* The part of C16 that holds: the order of the batting entries and of the
\* bowling entries changes no player's ratings.
C16_OrderOfCards ==
    pc = "done" =>
        \A m \in CardsPermuted(match) \ {match} :
            \E out \in calculate_match_ratings(m) :
                /\ RecordSet(out[1]) = RecordSet(team1_final)
                /\ RecordSet(out[2]) = RecordSet(team2_final)

-----------------------------------------------------------------------------
\* The entries of a list
Entries(list) == {list[i] : i \in 1..Len(list)}

\* A quotient the code has computed: a rational with a denominator
Finite(x) == x.d > 0

\* C17: for every match with non-negative inputs, zero balls faced, zero overs
\* bowled, zero overs in one or both innings, zero runs and zero wickets
\* included, calculate_match_ratings runs to its end without dividing by
\* zero, and each guarded quantity degrades to 0.0 or a neutral value: the
\* strike rate without a ball faced, the economy rate without a ball bowled,
\* the run rate of an innings without a ball, the match economy of a match
\* without a ball and the economy adjustment against a match economy of 0 are
\* 0.0, and a spell without a ball is rated 5.0.
C17_NoDivisionByZero ==
    /\ pc = "context" =>
          \A t \in 1..2 :
              /\ \A e \in Entries(OwnInnings(t).batting) :
                    calculate_batting_rating(e, ctx, TeamWon(t), t = 2) # {}
              /\ \A e \in Entries(OwnInnings(t).bowling) :
                    /\ calculate_bowling_rating(e, ctx, TeamWon(t)) # {}
                    /\ calculate_fielding_rating(e.name, OwnInnings(3 - t).fielding_events) # {}
    /\ pc = "rated" =>
          \A t \in 1..2 :
              \A name \in all_names(BattersOf(t), BowlersOf(t)) :
                  player_rating(OwnInnings(t).team_name, name, BattersOf(t), BowlersOf(t),
                                FieldersOf(t)) # {}
    /\ pc # "start" =>
          /\ Finite(ctx.match_economy) /\ Finite(ctx.match_run_rate)
          /\ Finite(ctx.first_innings_rr) /\ Finite(ctx.second_innings_rr)
          /\ Finite(ctx.required_run_rate)
          /\ match.first_innings.total_overs = 0 => ctx.first_innings_rr = Int2R(0)
          /\ match.second_innings.total_overs = 0 => ctx.second_innings_rr = Int2R(0)
          /\ (match.first_innings.total_overs = 0 /\ match.second_innings.total_overs = 0)
                => ctx.match_economy = Int2R(0) /\ ctx.match_run_rate = Int2R(0)
    /\ pc \in {"rated", "done"} =>
          \A t \in 1..2 :
              /\ \A i \in 1..Len(OwnInnings(t).batting) :
                    LET e == OwnInnings(t).batting[i]
                    IN  /\ InningsRatings(t).batters[i].rating \in 0..100
                        /\ Finite(strike_rate(e)) /\ Finite(boundary_percentage(e))
                        /\ e.balls = 0 => strike_rate(e) = Int2R(0)
                        /\ e.runs = 0 => boundary_percentage(e) = Int2R(0)
              /\ \A i \in 1..Len(OwnInnings(t).bowling) :
                    LET e == OwnInnings(t).bowling[i]
                    IN  /\ InningsRatings(3 - t).bowlers[i].rating \in 0..100
                        /\ Finite(economy_rate(e))
                        /\ total_balls(e) = 0 =>
                              /\ economy_rate(e) = Int2R(0)
                              /\ InningsRatings(3 - t).bowlers[i].rating = 50
                        /\ ctx.match_economy = Int2R(0) => eco_score(e, ctx) = {Int2R(0)}
    /\ pc = "done" =>
          \A t \in 1..2 : \A r \in Records(t) : r.overall_rating \in 0..100

\* A match without a ball bowled in either innings has been rated to its end,
\* with a batter who faced no ball and a bowler who bowled none
C17_Witness ==
    /\ pc = "done"
    /\ match.first_innings.total_overs = 0 /\ match.second_innings.total_overs = 0
    /\ \E t \in 1..2 :
        /\ \E e \in Entries(OwnInnings(t).batting) : did_bat(e) /\ e.balls = 0
        /\ \E e \in Entries(OwnInnings(t).bowling) : total_balls(e) = 0
        /\ \E r \in Records(t) : r.did_bat /\ ~r.did_bowl /\ r.overall_rating \in 0..100
    /\ \E t \in 1..2 : \E e \in Entries(OwnInnings(t).bowling) :
          total_balls(e) > 0 /\ e.wickets = 0 /\ eco_score(e, ctx) = {Int2R(0)}

-----------------------------------------------------------------------------
(* C18 *)

\* The control points of the runs component: runs and score in thousandths
ControlPoints ==
    << <<0, 0>>, <<5, 200>>, <<10, 400>>, <<15, 700>>, <<20, 1000>>, <<30, 1500>>,
       <<40, 2000>>, <<50, 2500>>, <<75, 2800>>, <<100, 3000>> >>

\* The straight line through control points i and i + 1, at runs
Interpolated(i, runs) ==
    LET p == ControlPoints[i]
        q == ControlPoints[i + 1]
    IN  Rat(p[2] * (q[1] - runs) + q[2] * (runs - p[1]), 1000 * (q[1] - p[1]))

\* C18: _runs_component is the piecewise-linear interpolation through the
\* ten control points (0,0) ... (100,3.0): between two neighbouring control
\* points it lies on the straight line joining them, at a control point it
\* is exactly that point's score, it never decreases as runs grow, and it
\* is 3.0 for every runs value above 100.
C18_RunsComponent ==
    Returned("_runs_component") =>
        LET runs == call.runs
            score == ret[1]
        IN  /\ \A i \in 1..(Len(ControlPoints) - 1) :
                  (ControlPoints[i][1] <= runs /\ runs <= ControlPoints[i + 1][1])
                      => score = Interpolated(i, runs)
            /\ \A i \in 1..Len(ControlPoints) :
                  runs = ControlPoints[i][1] => score = Dec(ControlPoints[i][2])
            /\ \A lower \in 0..runs : RLe(_runs_component(lower), score)
            /\ runs > 100 => score = Int2R(3)

\* 60 runs, between the control points at 50 and 75, score 2.62
C18_Witness ==
    /\ Returned("_runs_component")
    /\ call.runs = 60
    /\ ret[1] = Dec(2620)

-----------------------------------------------------------------------------
(* C19 *)

\* The factor stated for a spell of the given number of legal balls
StatedScale(balls) ==
    IF balls < 12 THEN Rat(1, 2) ELSE IF balls < 18 THEN Rat(3, 4) ELSE Int2R(1)

\* C19: get_economy_context_adjustment returns +2.5 exactly when match
\* economy minus bowler economy is at least 5 (for arguments a double holds
\* exactly; always when the difference is above 5 and never when it is
\* below), every value it returns lies in [-2.0, +2.5], a spell of 4 overs
\* for 0 runs at match economy 8.0 has an unscaled component of +2.5, and
\* calculate_bowling_rating's economy component is the adjustment times 0.5
\* for fewer than 12 balls, times 0.75 for fewer than 18, and times 1 otherwise.
C19_EconomyComponent ==
    /\ Returned("get_economy_context_adjustment") =>
          LET diff == RSub(call.match_economy, call.bowler_economy)
              exact == Representable(call.bowler_economy)
                           /\ Representable(call.match_economy)
          IN  /\ RGt(diff, Int2R(5)) => ret[1] = Dec(2500)
              /\ (diff = Int2R(5) /\ exact) => ret[1] = Dec(2500)
              /\ RLt(diff, Int2R(5)) => ret[1] # Dec(2500)
              /\ RLe(Int2R(-2), ret[1]) /\ RLe(ret[1], Dec(2500))
    /\ (Returned("calculate_bowling_rating") /\ did_bowl(call.entry)) =>
          LET entry == call.entry
              adjustments == get_economy_context_adjustment(economy_rate(entry),
                                                            call.ctx.match_economy)
          IN  /\ \E adj \in adjustments :
                    ret[1].locals.eco_score = RMul(StatedScale(total_balls(entry)), adj)
              /\ (entry.overs = 40 /\ entry.runs_conceded = 0
                      /\ call.ctx.match_economy = Int2R(8))
                    => ret[1].locals.eco_score = Dec(2500)

\* A spell of 11 balls for 0 runs at match economy 8.0: the maximum
\* adjustment +2.5, halved to 1.25
C19_Witness ==
    /\ Returned("calculate_bowling_rating")
    /\ total_balls(call.entry) = 11
    /\ call.entry.runs_conceded = 0
    /\ call.ctx.match_economy = Int2R(8)
    /\ Dec(2500) \in get_economy_context_adjustment(economy_rate(call.entry),
                                                    call.ctx.match_economy)
    /\ ret[1].locals.eco_score = Dec(1250)

-----------------------------------------------------------------------------
(* C20 *)

\* The stated wickets component, in thousandths
StatedWickets(wickets) ==
    IF wickets >= 5 THEN 3000 ELSE <<0, 1000, 1800, 2500, 2800>>[wickets + 1]

\* C20: a bowling entry with zero legal balls is rated exactly 5.0,
\* whatever else it records; for any other entry the wickets component is
\* 0, 1.0, 1.8, 2.5, 2.8 for 0 to 4 wickets and exactly 3.0 for 5 wickets or
\* more, so 5 and 7 wickets give the same component.
C20_NeutralAndWickets ==
    Returned("calculate_bowling_rating") =>
        LET entry == call.entry
        IN  /\ total_balls(entry) = 0 =>
                  /\ ret[1].rating = 50
                  /\ ret[1].locals = [note |-> "Did not bowl"]
            /\ total_balls(entry) > 0 =>
                  /\ ret[1].locals.wicket_score = Dec(StatedWickets(entry.wickets))
                  /\ entry.wickets >= 5 =>
                        ret[1].locals.wicket_score = _wickets_component(5)

\* 7 wickets in a spell of 4 overs: component 3.0
C20_Witness ==
    /\ Returned("calculate_bowling_rating")
    /\ total_balls(call.entry) = 24
    /\ call.entry.wickets = 7
    /\ ret[1].locals.wicket_score = Int2R(3)

\* No legal ball, 7 wickets and 40 runs on the card: rated 5.0
C20_ZeroBallsWitness ==
    /\ Returned("calculate_bowling_rating")
    /\ call.entry.overs = 0
    /\ call.entry.wickets = 7
    /\ call.entry.runs_conceded = 40
    /\ ret[1].rating = 50

-----------------------------------------------------------------------------
(* C21 *)

\* The band of a boundary percentage, in thousandths
StatedBoundaryBand(bp) ==
    IF RGe(bp, Int2R(70)) THEN 1000 ELSE IF RGe(bp, Int2R(60)) THEN 750
    ELSE IF RGe(bp, Int2R(50)) THEN 500 ELSE IF RGe(bp, Int2R(35)) THEN 200
    ELSE IF RGe(bp, Int2R(20)) THEN 0 ELSE -300

\* The boundary component with the given small-sample factors (thousandths)
\* below 5, 10 and 15 balls
StatedBoundary(e, below5, below10, below15) ==
    IF e.balls < 2 \/ e.runs = 0 THEN Int2R(0)
    ELSE LET band == StatedBoundaryBand(Rat(100 * (4 * e.fours + 6 * e.sixes), e.runs))
             kept == IF e.balls < 4 /\ band < 0 THEN 0 ELSE band
             factor == IF e.balls < 5 THEN below5 ELSE IF e.balls < 10 THEN below10
                       ELSE IF e.balls < 15 THEN below15 ELSE 1000
             relief == IF kept < 0 /\ e.role \in {"bowler", "bowling_all_rounder"}
                       THEN 2 ELSE 1
         IN  Rat(kept * factor, 1000 * 1000 * relief)

\* C21 as stated: the boundary-percentage component has the discounting of
\* the strike-rate component, banded score times 0.35 below 5 balls, 0.5
\* below 10 and 0.75 below 15, a negative score zeroed below 4 balls and
\* halved for bowler roles; it is 0 when runs = 0 and lies in [-0.3, +1.0].
C21_BoundaryComponent_AsStated ==
    (Returned("calculate_batting_rating") /\ did_bat(call.entry)) =>
        LET score == ret[1].locals.boundary_score
        IN  /\ score = StatedBoundary(call.entry, 350, 500, 750)
            /\ call.entry.runs = 0 => score = Int2R(0)
            /\ RLe(Dec(-300), score) /\ RLe(score, Int2R(1))

\* C21: the boundary-percentage component is the banded score times 0.35 below
\* 5 balls and times 0.5 below 10 balls, with no discount from 10 balls on; a
\* negative score is zeroed below 4 balls and halved for bowler roles; the
\* component is 0 when runs = 0 or fewer than 2 balls were faced, and lies
\* in [-0.3, +1.0].
C21_BoundaryComponent ==
    (Returned("calculate_batting_rating") /\ did_bat(call.entry)) =>
        LET score == ret[1].locals.boundary_score
        IN  /\ score = StatedBoundary(call.entry, 350, 500, 1000)
            /\ (call.entry.runs = 0 \/ call.entry.balls < 2) => score = Int2R(0)
            /\ RLe(Dec(-300), score) /\ RLe(score, Int2R(1))

\* 14 balls with 70 percent of the runs in boundaries: the full band 1.0
C21_Witness ==
    /\ Returned("calculate_batting_rating")
    /\ call.entry.balls = 14
    /\ call.entry.runs = 20 /\ call.entry.fours = 2 /\ call.entry.sixes = 1
    /\ ret[1].locals.boundary_score = Int2R(1)

-----------------------------------------------------------------------------
(* C22 *)

\* The strike-rate component stated for a context adjustment adj
StatedStrikeRate(e, adj) ==
    LET kept == IF e.balls < 4 /\ RLt(adj, Int2R(0)) THEN Int2R(0) ELSE adj
        factor == IF e.balls < 5 THEN Rat(35, 100) ELSE IF e.balls < 10 THEN Rat(1, 2)
                  ELSE IF e.balls < 15 THEN Rat(3, 4) ELSE Int2R(1)
        scaled == RMul(factor, kept)
    IN  IF RLt(scaled, Int2R(0)) /\ e.role \in {"bowler", "bowling_all_rounder"}
        THEN RMul(Rat(1, 2), scaled) ELSE scaled

\* C22: the strike-rate component is 0 below 2 balls faced; otherwise it is
\* the context adjustment of the strike rate against the match strike rate
\* (match run rate * 100 / 6, or 130 when the match run rate is 0), a
\* negative value zeroed below 4 balls, then times 0.35 below 5 balls, 0.5
\* below 10, 0.75 below 15, a remaining negative value halved for bowler
\* roles; it lies in [-1.5, +2.0] and is never negative below 4 balls.
C22_StrikeRateComponent ==
    (Returned("calculate_batting_rating") /\ did_bat(call.entry)) =>
        LET e == call.entry
            score == ret[1].locals.sr_score
            rr == call.ctx.match_run_rate
            match_sr == IF rr = Int2R(0) THEN Int2R(130) ELSE RMul(rr, Rat(100, 6))
            adjustments == get_strike_rate_context_adjustment(strike_rate(e), match_sr)
        IN  /\ e.balls < 2 => score = Int2R(0)
            /\ e.balls >= 2 => \E adj \in adjustments : score = StatedStrikeRate(e, adj)
            /\ RLe(Dec(-1500), score) /\ RLe(score, Int2R(2))
            /\ e.balls < 4 => RLe(Int2R(0), score)

\* A bowler's 0 off 9 balls at a match rate of 8.0: -1.5 * 0.5, halved
C22_Witness ==
    /\ Returned("calculate_batting_rating")
    /\ call.entry.role = "bowler"
    /\ call.entry.balls = 9
    /\ call.entry.runs = 0
    /\ call.ctx.match_run_rate = Int2R(8)
    /\ ret[1].locals.sr_score = Dec(-375)

-----------------------------------------------------------------------------
(* C23 *)

\* The chase-pressure scores stated for an entry with at least 2 balls in the
\* chase: p, 0.3 p or -0.5 p by the strike rate against S (both neighbours
\* where the strike rate is exactly on a threshold), a negative value zeroed
\* below 4 balls, halved below 5 balls, a negative value halved for bowlers
StatedChase(e, c) ==
    LET p == get_chase_pressure_factor(c.required_run_rate)
        S == RMul(c.required_run_rate, Rat(100, 6))
        low == RMul(Rat(7, 10), S)
        sr == strike_rate(e)
        raws == {x \in {p, RMul(Rat(3, 10), p), RMul(Rat(-1, 2), p)} :
                    \/ x = p /\ RGe(sr, S)
                    \/ x = RMul(Rat(3, 10), p) /\ RGe(sr, low) /\ RLe(sr, S)
                    \/ x = RMul(Rat(-1, 2), p) /\ RLe(sr, low)}
        Kept(x) == IF e.balls < 4 /\ RLt(x, Int2R(0)) THEN Int2R(0) ELSE x
        Short(x) == IF e.balls < 5 THEN RMul(Rat(1, 2), x) ELSE x
        Relief(x) == IF RLt(x, Int2R(0)) /\ e.role \in {"bowler", "bowling_all_rounder"}
                     THEN RMul(Rat(1, 2), x) ELSE x
    IN  {Relief(Short(Kept(x))) : x \in raws}

\* C23: the chase-pressure component is 0 unless the innings is the chase
\* and at least 2 balls were faced; otherwise, with p the pressure factor of
\* the required run rate and S = required run rate * 100 / 6, it is p when
\* the strike rate is at least S, 0.3 p when it is at least 0.7 S and -0.5 p
\* otherwise, a negative value zeroed below 4 balls, the value halved below
\* 5 balls, a negative value halved again for bowler roles; it lies in
\* [-0.5, +1.0].
C23_ChaseComponent ==
    (Returned("calculate_batting_rating") /\ did_bat(call.entry)) =>
        LET e == call.entry
            score == ret[1].locals.chase_score
        IN  /\ (~call.is_chasing \/ e.balls < 2) => score = Int2R(0)
            /\ (call.is_chasing /\ e.balls >= 2) => score \in StatedChase(e, call.ctx)
            /\ RLe(Dec(-500), score) /\ RLe(score, Int2R(1))

\* A bowler's 0 off 4 balls chasing at a required rate of 15.05: -0.5 * 1.0,
\* halved for the short innings and halved again for the role
C23_Witness ==
    /\ Returned("calculate_batting_rating")
    /\ call.is_chasing
    /\ call.entry.role = "bowler" /\ call.entry.balls = 4 /\ call.entry.runs = 0
    /\ call.ctx.required_run_rate = Rat(301, 20)
    /\ ret[1].locals.chase_score = Dec(-125)

\* 40 off 14 balls chasing at a required rate of 15.05: the full factor 1.0
C23_FullCreditWitness ==
    /\ Returned("calculate_batting_rating")
    /\ call.is_chasing
    /\ call.entry.balls = 14 /\ call.entry.runs = 40
    /\ call.ctx.required_run_rate = Rat(301, 20)
    /\ ret[1].locals.chase_score = Int2R(1)

-----------------------------------------------------------------------------
(* C24 *)

\* C24: get_chase_pressure_factor is non-decreasing in the required run
\* rate, returns 0.0 for every required run rate of at most 6, returns a
\* value in [0.0, 1.0] for every input, and returns 1.0 for every required
\* run rate above 12.
C24_PressureFactor ==
    Returned("get_chase_pressure_factor") =>
        LET rr == call.required_rr
            factor == ret[1]
        IN  /\ \A lower \in CallRequiredRates :
                  RLe(lower, rr) => RLe(get_chase_pressure_factor(lower), factor)
            /\ RLe(rr, Int2R(6)) => factor = Int2R(0)
            /\ RLe(Int2R(0), factor) /\ RLe(factor, Int2R(1))
            /\ RGt(rr, Int2R(12)) => factor = Int2R(1)

\* What the function does: non-decreasing, 0.0 up to a required rate of 6,
\* within [0.0, 1.0], 0.7 + 0.1 a run above 12 and 1.0 from 15 on
C24_PressureFactorBands ==
    Returned("get_chase_pressure_factor") =>
        LET rr == call.required_rr
            factor == ret[1]
        IN  /\ \A lower \in CallRequiredRates :
                  RLe(lower, rr) => RLe(get_chase_pressure_factor(lower), factor)
            /\ RLe(rr, Int2R(6)) => factor = Int2R(0)
            /\ RLe(Int2R(0), factor) /\ RLe(factor, Int2R(1))
            /\ (RGt(rr, Int2R(12)) /\ RLt(rr, Int2R(15)))
                  => factor = RAdd(Rat(7, 10), RMul(RSub(rr, Int2R(12)), Rat(1, 10)))
            /\ RGe(rr, Int2R(15)) => factor = Int2R(1)

-----------------------------------------------------------------------------
(* C25 *)

\* The wicket-quality points of the dismissed batsmen from the i-th on, in
\* hundredths
RECURSIVE QualityPoints(_, _)
QualityPoints(dismissed, i) ==
    IF i > Len(dismissed) THEN 0
    ELSE (IF dismissed[i] >= 50 THEN 40 ELSE IF dismissed[i] >= 30 THEN 30
          ELSE IF dismissed[i] >= 15 THEN 15 ELSE 5) + QualityPoints(dismissed, i + 1)

Least(a, b) == IF a <= b THEN a ELSE b

\* Maidens, quota, wicket quality and extras as stated, summed, in hundredths
StatedBowlingExtras(e) ==
    LET balls == total_balls(e)
        maidens == Least(150 * e.maidens, 300)
        quota == IF balls >= 24 THEN 10 ELSE IF balls >= 18 THEN 5 ELSE 0
        quality == Least(100, QualityPoints(e.dismissed_batsmen_runs, 1))
        extras == -(5 * e.wides + 20 * e.no_balls)
    IN  maidens + quota + quality + extras

\* C25: for an entry with at least one legal ball the bowling rating is the
\* clamp to [0, 10], rounded to one decimal, of 5.0 + wickets + economy +
\* maidens + quota + wicket quality + extras, with maidens = min(1.5 *
\* maidens, 3.0), quota = 0.1 from 24 balls and 0.05 for 18 to 23 balls,
\* wicket quality = min(1.0, sum of 0.4 / 0.3 / 0.15 / 0.05 for dismissed
\* batsmen on 50 or more / 30 or more / 15 or more / fewer runs), and extras
\* = -(0.05 * wides + 0.2 * no_balls) without a lower cap.
C25_BowlingComposition ==
    (Returned("calculate_bowling_rating") /\ total_balls(call.entry) >= 1) =>
        LET e == call.entry
            sum == RAdd(RAdd(RAdd(Int2R(5), ret[1].locals.wicket_score),
                             ret[1].locals.eco_score),
                        Rat(StatedBowlingExtras(e), 100))
            clamped == IF RLt(sum, Int2R(0)) THEN Int2R(0)
                       ELSE IF RGt(sum, Int2R(10)) THEN Int2R(10) ELSE sum
        IN  ret[1].rating \in RoundSet(clamped)

\* 4 overs, 3 maidens, 100 wides and a no-ball, three batsmen dismissed on
\* 50: 5.0 + 3.0 + 0.1 + 1.0 - 5.2, and -1.0 for the economy
C25_Witness ==
    /\ Returned("calculate_bowling_rating")
    /\ call.entry.overs = 40 /\ call.entry.maidens = 3 /\ call.entry.wides = 100
    /\ call.entry.no_balls = 1 /\ call.entry.dismissed_batsmen_runs = <<50, 50, 50>>
    /\ call.entry.wickets = 0 /\ call.entry.runs_conceded = 40
    /\ call.ctx.match_economy = Int2R(8)
    /\ ret[1].locals.eco_score = Dec(-1000)
    /\ ret[1].rating = 29

\* The sum is below 0 and the rating 0.0; the sum is above 10 and the rating 10.0
C25_ClampWitness ==
    /\ Returned("calculate_bowling_rating")
    /\ \/ call.entry.wides = 100 /\ call.entry.maidens = 0 /\ ret[1].rating = 0
       \/ call.entry.wides = 0 /\ call.entry.maidens = 3 /\ call.entry.wickets = 5
              /\ ret[1].rating = 100

-----------------------------------------------------------------------------
(* C26 *)

\* The match with another declared winner
WithWinner(m, w) == [m EXCEPT !.winner = w]

\* The second-innings batters who are not out with runs > 0
NotOutChasers(m) ==
    {m.second_innings.batting[i].name : i \in
        {j \in 1..Len(m.second_innings.batting) :
            /\ m.second_innings.batting[j].dismissal = "not_out"
            /\ m.second_innings.batting[j].runs > 0}}

\* The two lists name the same players in the same order with the same
\* bowling and fielding sub-ratings, and the same batting sub-ratings but
\* for the players named in free
SameButBatting(list, other, free) ==
    /\ Len(list) = Len(other)
    /\ \A i \in 1..Len(list) :
          /\ list[i].name = other[i].name
          /\ list[i].bowling_rating = other[i].bowling_rating
          /\ list[i].fielding_rating = other[i].fielding_rating
          /\ list[i].name \notin free => list[i].batting_rating = other[i].batting_rating

\* C26: for two matches identical except for Match.winner, every bowling
\* sub-rating and every fielding sub-rating is identical, and a batting
\* sub-rating can differ only for a second-innings batter who is not out
\* with runs > 0: whatever calculate_match_ratings returned for a match, it
\* can return the same sub-ratings, but for those batters' batting ratings,
\* for the match under every other winner.
C26_WinnerHasNoImpact ==
    Returned("calculate_match_ratings") =>
        \A w \in Winners :
            \E other \in calculate_match_ratings(WithWinner(call.match, w)) :
                /\ SameButBatting(ret[1].team1, other[1], {})
                /\ SameButBatting(ret[1].team2, other[2], NotOutChasers(call.match))

\* Team A is the declared winner of a chase team B completed; p1 of team B is
\* rated 10.0 for 4-2-8-5 and q1 of team A has a batting rating
C26_Witness ==
    /\ Returned("calculate_match_ratings")
    /\ call.match.winner = "A"
    /\ call.match.second_innings.total_runs > call.match.first_innings.total_runs
    /\ \E i \in 1..Len(ret[1].team2) :
          /\ ret[1].team2[i].name = "p1"
          /\ ret[1].team2[i].did_bowl
          /\ ret[1].team2[i].bowling_rating = 100
    /\ \E i \in 1..Len(ret[1].team1) : ret[1].team1[i].did_bat

\* Team B is the declared winner and its p1 is not out with runs in the
\* chase: under winner A the batting sub-rating of p1 is another one
C26_ChaserWitness ==
    /\ Returned("calculate_match_ratings")
    /\ call.match.winner = "B"
    /\ "p1" \in NotOutChasers(call.match)
    /\ \E i \in 1..Len(ret[1].team2) :
          /\ ret[1].team2[i].name = "p1"
          /\ \A other \in calculate_match_ratings(WithWinner(call.match, "A")) :
                other[2][i].batting_rating # ret[1].team2[i].batting_rating

(* C27 *)

\* The weights the code has in force for record r of a returned merge when it
\* reaches the missing-discipline branches
MergeInForce(r) ==
    LET bi == last_index(call.batting_ratings, r.name, Len(call.batting_ratings))
        wi == last_index(call.bowling_ratings, r.name, Len(call.bowling_ratings))
        bat_balls == IF bi > 0 THEN call.batting_ratings[bi].balls ELSE 0
        bowl_balls == IF wi > 0 THEN call.bowling_ratings[wi].total_balls ELSE 0
    IN  negligible_batting(
            dual_skill_weights(r.role, r.did_bat, r.did_bowl, bat_balls, bowl_balls),
            r.role, r.did_bat, bat_balls)

\* The weights that multiply the batting, bowling and fielding sub-ratings in
\* the overall: the weights in force, a missing discipline's weight removed
\* and the others divided by what remains
Applied(w, p_did_bat, p_did_bowl) ==
    IF ~p_did_bat /\ ~p_did_bowl THEN <<Int2R(0), Int2R(0), Int2R(1)>>
    ELSE IF ~p_did_bat
    THEN <<Int2R(0), RDiv(w[2], RAdd(w[2], w[3])), RDiv(w[3], RAdd(w[2], w[3]))>>
    ELSE IF ~p_did_bowl
    THEN <<RDiv(w[1], RAdd(w[1], w[3])), Int2R(0), RDiv(w[3], RAdd(w[1], w[3]))>>
    ELSE w

\* C27: for every player with did_bat or did_bowl true, the overall rating is
\* a weighted average in which the batting or the bowling sub-rating has
\* strictly positive weight.
C27_NeverFieldingAlone ==
    Returned("_merge_team_ratings") =>
        \A i \in 1..Len(ret[1]) :
            LET r == ret[1][i]
                a == Applied(MergeInForce(r), r.did_bat, r.did_bowl)
            IN  (r.did_bat \/ r.did_bowl) => (a[1].n > 0 \/ a[2].n > 0)

(* C28 *)

Greatest(a, b) == IF a >= b THEN a ELSE b

\* C28: the weights applied to the sub-ratings of every player are
\* non-negative and sum to 1, the overall rating is the rounded average of
\* the sub-ratings under them, and it lies between the smallest and the
\* largest of the player's batting, bowling and fielding sub-ratings.
C28_ConvexCombination ==
    Returned("_merge_team_ratings") =>
        \A i \in 1..Len(ret[1]) :
            LET r == ret[1][i]
                a == Applied(MergeInForce(r), r.did_bat, r.did_bowl)
                average == RAdd(RAdd(RMul(Tenths(r.batting_rating), a[1]),
                                     RMul(Tenths(r.bowling_rating), a[2])),
                                RMul(Tenths(r.fielding_rating), a[3]))
            IN  /\ \A k \in 1..3 : a[k].n >= 0
                /\ RAdd(RAdd(a[1], a[2]), a[3]) = Int2R(1)
                /\ r.overall_rating \in RoundSet(average)
                /\ r.overall_rating >= Least(r.batting_rating,
                                             Least(r.bowling_rating, r.fielding_rating))
                /\ r.overall_rating <= Greatest(r.batting_rating,
                                                Greatest(r.bowling_rating, r.fielding_rating))

\* A bowler who faced 5 balls (batting 0.0) and bowled 24 (bowling 10.0) with
\* a fielding rating of 3.4: the batting weight is redistributed and the
\* overall is 9.0
C28_Witness ==
    /\ Returned("_merge_team_ratings")
    /\ Len(ret[1]) = 1
    /\ ret[1][1].role = "bowler"
    /\ ret[1][1].did_bat /\ ret[1][1].did_bowl
    /\ call.batting_ratings[1].balls = 5
    /\ ret[1][1].batting_rating = 0
    /\ ret[1][1].bowling_rating = 100
    /\ ret[1][1].fielding_rating = 34
    /\ ret[1][1].overall_rating = 90

\* A batter who did not bowl: the bowling weight is removed and the overall
\* of batting 10.0 and fielding 3.4 is 9.0
C28_RenormalisedWitness ==
    /\ Returned("_merge_team_ratings")
    /\ Len(ret[1]) = 1
    /\ ret[1][1].role = "batter"
    /\ ret[1][1].did_bat /\ ~ret[1][1].did_bowl
    /\ ret[1][1].batting_rating = 100
    /\ ret[1][1].fielding_rating = 34
    /\ ret[1][1].overall_rating = 90

(* C29 *)

\* C29: a batting entry dismissed for 0 runs off at most 1 ball is rated
\* exactly 3.0 whatever the role, batting position, match context, chase flag
\* and match result: the duck penalty is -2.0 and every other component is 0.
C29_GoldenDuck ==
    (/\ Returned("calculate_batting_rating")
     /\ call.entry.runs = 0
     /\ call.entry.balls <= 1
     /\ Dismissed(call.entry)) =>
        /\ ret[1].rating = 30
        /\ ret[1].locals.duck_score = Int2R(-2)
        /\ \A f \in DOMAIN ret[1].locals \ {"duck_score"} : ret[1].locals[f] = Int2R(0)

\* A bowling all-rounder at number 8 run out without facing a ball, a four
\* and a six on the card, in a chase at a required rate above 13 for the
\* winning team: rated 3.0
C29_Witness ==
    /\ Returned("calculate_batting_rating")
    /\ call.entry.runs = 0
    /\ call.entry.balls = 0
    /\ call.entry.sixes = 1
    /\ call.entry.dismissal = "run_out"
    /\ call.entry.role = "bowling_all_rounder"
    /\ call.entry.batting_position = 8
    /\ call.is_chasing /\ call.is_winning_team
    /\ RGt(call.ctx.required_run_rate, Int2R(13))
    /\ ret[1].rating = 30

(* C30 *)

\* The entries of a list under a name, in the order of the list
Under(list, name) == SelectSeq(list, LAMBDA x : x.name = name)

\* The last entry of a list under a name
LastUnder(list, name) == Under(list, name)[Len(Under(list, name))]

\* C30: the names of the output of _merge_team_ratings are exactly the names
\* of the batting and of the bowling entries, each once; the last entry under
\* a name supplies the sub-rating and the flag of its discipline, and the role
\* is the batting entry's when the player has one, the bowling entry's
\* otherwise.
C30_OutputMembership ==
    Returned("_merge_team_ratings") =>
        /\ {ret[1][i].name : i \in 1..Len(ret[1])}
               = Names(call.batting_ratings) \cup Names(call.bowling_ratings)
        /\ \A i, j \in 1..Len(ret[1]) : ret[1][i].name = ret[1][j].name => i = j
        /\ \A i \in 1..Len(ret[1]) :
              LET r == ret[1][i]
                  batted == r.name \in Names(call.batting_ratings)
                  bowled == r.name \in Names(call.bowling_ratings)
              IN  /\ batted =>
                        /\ r.batting_rating = LastUnder(call.batting_ratings, r.name).rating
                        /\ r.did_bat = LastUnder(call.batting_ratings, r.name).did_bat
                        /\ r.role = LastUnder(call.batting_ratings, r.name).role
                  /\ bowled =>
                        /\ r.bowling_rating = LastUnder(call.bowling_ratings, r.name).rating
                        /\ r.did_bowl = LastUnder(call.bowling_ratings, r.name).did_bowl
                  /\ (bowled /\ ~batted) =>
                        r.role = LastUnder(call.bowling_ratings, r.name).role

\* p1 has two batting entries (7.1 as a batter, then 3.4 as a bowler) and p2
\* a batting entry as a bowler and two bowling entries (the last one 10.0 as
\* a batter); p3 only bowls: three players come out, p1 a bowler rated 3.4
\* for batting, p2 a bowler rated 10.0 for bowling
C30_Witness ==
    /\ Returned("_merge_team_ratings")
    /\ Len(Under(call.batting_ratings, "p1")) = 2
    /\ LastUnder(call.batting_ratings, "p1").rating = 34
    /\ Len(Under(call.batting_ratings, "p2")) = 1
    /\ Len(Under(call.bowling_ratings, "p2")) = 2
    /\ LastUnder(call.bowling_ratings, "p2").rating = 100
    /\ Len(Under(call.bowling_ratings, "p3")) = 1
    /\ Len(ret[1]) = 3
    /\ \E i \in 1..3 : /\ ret[1][i].name = "p1"
                       /\ ret[1][i].role = "bowler"
                       /\ ret[1][i].batting_rating = 34
    /\ \E i \in 1..3 : /\ ret[1][i].name = "p2"
                       /\ ret[1][i].role = "bowler"
                       /\ ret[1][i].bowling_rating = 100
    /\ \E i \in 1..3 : ret[1][i].name = "p3"

=============================================================================
